---- MODULE Spec2Model ----
(***************************************************************************)
(* Crawl controller of the FC Online crawlers: the community free-board    *)
(* crawler (crawler-community.js) and the maintenance-notice crawler       *)
(* (part_000).  One state machine models crawl() of both; the variable     *)
(* crawler says which source file a behaviour follows.  A state is the     *)
(* await at which crawl() is suspended (pc) plus its locals, the           *)
(* VisitedManager, the JSONL file and the SIGINT handler.                  *)
(***************************************************************************)
EXTENDS Integers, Sequences, FiniteSets, TLC

\* ------------------------------------------------------------------------
\* Bounds of the model
\* ------------------------------------------------------------------------
MaxId == 2
MaxItems == 2
MaxPages == 2
MaxRuns == 2
MaxLines == 3
MaxRestPage == 30
\* the largest size of min and max in the calls of randomDelay studied
MaxDelay == 6

\* ------------------------------------------------------------------------
\* Program constants
\* ------------------------------------------------------------------------
\* getKSTDate: kstOffset = 9 * 60 * 60 * 1000, here in hours
KstOffsetHours == 9

\* the page rests: (pageNum - 1) % 10 === 0, (pageNum - 1) % 3 === 0
LongRestEvery == 10
ShortRestEvery == 3

\* CONFIG.DELAY and CONFIG.TIMEOUT.RECOVERY_WAIT, in milliseconds (the same
\* values in both crawlers)
BETWEEN_POSTS_MIN == 2000
BETWEEN_POSTS_MAX == 4000
EVERY_10_POSTS_MIN == 10000
EVERY_10_POSTS_MAX == 15000
BETWEEN_PAGES_MIN == 2000
BETWEEN_PAGES_MAX == 4000
EVERY_3_PAGES_MIN == 60000
EVERY_3_PAGES_MAX == 180000
EVERY_10_PAGES_MIN == 480000
EVERY_10_PAGES_MAX == 720000
RECOVERY_WAIT == 900000

\* the every-10-posts rest: totalCrawled % 10 === 0
PostRestEvery == 10

\* The header comment of crawler-community.js names page rests every 10 and
\* every 30 pages
HeaderRestEvery == 10
HeaderLongRestEvery == 30

Crawlers == {"community", "notice"}

\* Time is counted in hours from the instant "session start minus
\* MONTHS_TO_CRAWL months", so that instant is 0.
\* getDateMonthsAgo: the KST-shifted clock (now + 9h) minus the months
getDateMonthsAgo == 0 + KstOffsetHours

\* Wall-clock (KST) times a listing row can show: one hour before the
\* cutoff on the KST clock, and well after it.
WallClocks == {KstOffsetHours - 1, 2 * KstOffsetHours}

\* What a listing row carries as its date: a well-formed KST wall-clock
\* time ("ok"), or
\*   community  "empty"      no data-no attribute
\*              "malformed"  a string without a time part: the parser throws
\*              "invalid"    a string with a space that holds no numbers:
\*                           the parser returns an Invalid Date
\*   notice     "malformed"  a text no format matches (the empty text is
\*                           one): the parser returns null
\*              "nodigits"   a text with "일 전" and no number before it:
\*                           the parser throws
RawDates(c) ==
    {[fmt |-> f, wall |-> 0] :
        f \in IF c = "community" THEN {"empty", "malformed", "invalid"}
              ELSE {"malformed", "nodigits"}}
    \cup {[fmt |-> "ok", wall |-> w] : w \in WallClocks}

Ids == 1..MaxId

\* A row of the listing as page.evaluate returns it
Articles(c) == [articleNo : Ids, datetimeRaw : RawDates(c)]

\* A listing page: the rows in site order
ListingPages(c) == UNION {[1..n -> Articles(c)] : n \in 0..MaxItems}

\* ------------------------------------------------------------------------
\* Pure helpers
\* ------------------------------------------------------------------------
\* parseDateFromDataNo throws when the string has no time part
parseDateThrows(raw) == raw.fmt = "malformed"

\* parseDateFromDataNo: KST wall clock -> UTC instant (hour - 9)
parseDateFromDataNo(raw) == raw.wall - KstOffsetHours

\* parseNoticeDate returns null when no format matches
parseNoticeNull(raw) == raw.fmt = "malformed"

\* parseNoticeDate throws: dateStr.match(/(\d+)일 전/) is null
parseNoticeThrows(raw) == raw.fmt = "nodigits"

\* parseNoticeDate: a date on the KST-shifted clock, as Date.UTC(y, m, d)
parseNoticeDate(raw) == raw.wall

\* parseNoticeDate on the text of a dotted date, its calendar fields kept.
\* kst is getKSTDate() read with the UTC getters: year and month (1..12).
\* A text with one dot is "M.D" or "M.D(day of week)": the year is the
\* current one, or the one before when the month is later than the current
\* month.  A text with two dots is "YYYY.MM.DD" and carries its year.
Years == {2025, 2026}
Months == 1..12

DateTexts ==
    [kind : {"short"}, month : Months, day : {1, 15, 28}, weekday : BOOLEAN]
    \cup [kind : {"full"}, year : Years, month : Months, day : {1, 15, 28}]

\* a variant of parseDottedDate: the current month counts as a later month
parseDottedDate_SameMonthLastYear(kst, text) ==
    IF text.kind = "short"
    THEN [year |-> IF text.month >= kst.month THEN kst.year - 1 ELSE kst.year,
          month |-> text.month, day |-> text.day]
    ELSE [year |-> text.year, month |-> text.month, day |-> text.day]

parseDottedDate(kst, text) ==
    IF text.kind = "short"
    THEN [year |-> IF text.month > kst.month THEN kst.year - 1 ELSE kst.year,
          month |-> text.month, day |-> text.day]
    ELSE [year |-> text.year, month |-> text.month, day |-> text.day]

\* no date parsed
NoDate == [year |-> 0, month |-> 0, day |-> 0]

\* no call of the parser under study
NoParse == [kst |-> [year |-> 0, month |-> 0],
            text |-> [kind |-> "none"], date |-> NoDate]

\* const cutoffDate = getDateMonthsAgo(CONFIG.MONTHS_TO_CRAWL), computed
\* when crawl() begins
VARIABLE cutoffDate

\* a call of parseNoticeDate on a dotted text, studied on its own: the
\* clock, the text, and the date returned
VARIABLE parsed

\* articleDate < cutoffDate, as each crawler evaluates it
isBeforeCutoff(c, raw) ==
    IF c = "community"
    THEN raw.fmt = "ok" /\ parseDateFromDataNo(raw) < cutoffDate
    ELSE /\ ~parseNoticeNull(raw) /\ ~parseNoticeThrows(raw)
         /\ parseNoticeDate(raw) < cutoffDate

\* Math.max(...validArticles.map(a => a.articleNo))
RECURSIVE MaxArticleNoOf(_)
MaxArticleNoOf(arts) ==
    IF arts = <<>> THEN 0
    ELSE LET m == MaxArticleNoOf(Tail(arts))
         IN IF Head(arts).articleNo > m THEN Head(arts).articleNo ELSE m

\* a variant of RandomFloor: the product is rounded to the nearest integer
RandomFloor_Rounds(n) == {0, n \div 2, n}

\* Math.floor(Math.random() * n), for the draws 0, 1/2 and the largest
\* number below 1
RandomFloor(n) == {0, n \div 2, n - 1}

\* randomDelay(min, max): Math.floor(Math.random() * (max - min + 1)) + min
randomDelay(min, max) == {f + min : f \in RandomFloor(max - min + 1)}

\* the milliseconds each kind of sleep can take
DelayOf(kind) ==
    CASE kind = "betweenPosts" ->
              randomDelay(BETWEEN_POSTS_MIN, BETWEEN_POSTS_MAX)
      [] kind = "every10Posts" ->
              randomDelay(EVERY_10_POSTS_MIN, EVERY_10_POSTS_MAX)
      [] kind = "betweenPages" ->
              randomDelay(BETWEEN_PAGES_MIN, BETWEEN_PAGES_MAX)
      [] kind = "every3Pages" ->
              randomDelay(EVERY_3_PAGES_MIN, EVERY_3_PAGES_MAX)
      [] kind = "every10Pages" ->
              randomDelay(EVERY_10_PAGES_MIN, EVERY_10_PAGES_MAX)
      [] kind = "recoveryWait" -> {RECOVERY_WAIT}
      [] kind = "settle" -> randomDelay(1500, 2500)
      [] kind = "relistWait" -> {5000}

\* the ways of sleeping one delay of each of the kinds
NapsOf(kinds) ==
    {{[kind |-> k, ms |-> f[k]] : k \in kinds} :
        f \in {g \in [kinds -> UNION {DelayOf(k) : k \in kinds}] :
                  \A k \in kinds : g[k] \in DelayOf(k)}}

\* the every-10-posts rest is due after the between-posts delay: community
\* if (totalCrawled > 0 && totalCrawled % 10 === 0), notice
\* if (totalCrawled % 10 === 0)
PostRestDue(c, total) ==
    IF c = "community" THEN total > 0 /\ total % PostRestEvery = 0
    ELSE total % PostRestEvery = 0

\* a sleep of the rate limiting or a recovery wait ends
Paced(gap) == IF gap = "nofetch" THEN gap ELSE "paced"

\* VisitedManager.has
VisitedHas(set, articleNo) == articleNo \in set

\* a variant of InsertDesc: a post whose id the sorted posts hold already
\* is dropped
InsertDesc_DropsRepeated(post, sorted) ==
    IF \E k \in 1..Len(sorted) : sorted[k].article_no = post.article_no
    THEN sorted
    ELSE SelectSeq(sorted, LAMBDA r : r.article_no >= post.article_no)
         \o <<post>>
         \o SelectSeq(sorted, LAMBDA r : r.article_no < post.article_no)

\* a variant of InsertDesc: of two posts with one id the later read comes
\* first
InsertDesc_LaterTieFirst(post, sorted) ==
    SelectSeq(sorted, LAMBDA r : r.article_no > post.article_no)
    \o <<post>>
    \o SelectSeq(sorted, LAMBDA r : r.article_no <= post.article_no)

\* posts.sort((a, b) => b.article_no - a.article_no): stable, descending
RECURSIVE InsertDesc(_, _)
InsertDesc(post, sorted) ==
    IF sorted = <<>> THEN <<post>>
    ELSE IF Head(sorted).article_no >= post.article_no
         THEN <<Head(sorted)>> \o InsertDesc(post, Tail(sorted))
         ELSE <<post>> \o sorted

\* a variant of SortDesc: the posts are written back in the order read
SortDesc_AsRead(posts) == posts

RECURSIVE SortDesc(_)
SortDesc(posts) ==
    IF posts = <<>> THEN <<>>
    ELSE LET n == Len(posts)
         IN InsertDesc(posts[n], SortDesc(SubSeq(posts, 1, n - 1)))

IdsOfLines(lines) == {lines[k].article_no : k \in 1..Len(lines)}

Range(s) == {s[k] : k \in 1..Len(s)}

\* ------------------------------------------------------------------------
\* State
\* ------------------------------------------------------------------------
VARIABLES
    crawler,            \* which crawler this process is
    siteEnds,           \* the site shows an empty page after its last page
    run,                \* number of the session (1 = first run)
    pc,                 \* the await crawl() is suspended at
    handler,            \* SIGINT handler: "idle" or "closing"
    pageNum,            \* let pageNum
    articles,           \* rows of the current page the for loop has yet to take
    shouldStop,         \* let shouldStop
    maxArticleNo,       \* let maxArticleNo (0 = null); community only
    visitedDetailPage,  \* let visitedDetailPage
    crawledInThisPage,  \* let crawledInThisPage
    detail,             \* const detail: "none" before the extraction
    totalCrawled,       \* let totalCrawled
    visited,            \* VisitedManager.visited (in memory)
    visitedFile,        \* data/visited.json: the entries of its visited array
    fileKind,           \* data/visited.json: what the file holds
    jsonl,              \* the JSONL file of the day, a sequence of lines
    sorted,             \* the finally block rewrote the file this session
    \* history of the session, for stating properties
    firstPageMax,       \* maximum id of the first listing page (0 = none yet)
    appended,           \* ids appended to the JSONL file
    added,              \* ids passed to VisitedManager.add
    prevAppended,       \* ids appended by earlier sessions
    orphaned,           \* ids whose record was appended by a process
                        \* killed before visited.add
    lastFetchTimedOut,  \* the latest detail goto failed and its wait was slept
    pageEnd,            \* the page last completed: its number, whether
                        \* anything was ingested on it, the delays slept
                        \* between its last row and the next listing
    naps,               \* the sleeps of the latest sleeping step: kind and
                        \* milliseconds; emptied when the next row or
                        \* listing is taken
    fetchGap,           \* "nofetch" before the first detail page.goto of
                        \* the session, then whether a delay of the rate
                        \* limiting or a recovery wait was slept since the
                        \* latest one: "unpaced" or "paced"
    recoveryWaits,      \* 15-minute waits slept for the current operation
    attempts,           \* times the current operation was issued
    reloaded,           \* the recovery of the current operation could not
                        \* return to the listing root and reloaded the page
    exitPath,           \* how the crawl loop was left
    audit,              \* kept only where a session is audited (on): the
                        \* ids of the rows the for loop took that were no
                        \* newer than the first page's newest, had a date
                        \* that parsed to the cutoff or later and were not
                        \* in the visited set when the session began (due);
                        \* the worst failure of a detail fetch so far
                        \* (mishap): "none", "error" (a navigation error
                        \* that is not a timeout), "fault" (a timeout or a
                        \* failed extraction)
    drawn               \* a call of randomDelay studied on its own: min,
                        \* max, and the value returned (d) once it has
                        \* returned (done)

vars == <<crawler, siteEnds, cutoffDate, parsed, run, pc, handler, pageNum,
          articles, shouldStop,
          maxArticleNo, visitedDetailPage, crawledInThisPage, detail,
          totalCrawled, visited, visitedFile, fileKind, jsonl, sorted,
          firstPageMax,
          appended, added, prevAppended, orphaned, lastFetchTimedOut,
          pageEnd, naps, fetchGap, recoveryWaits, attempts, reloaded,
          exitPath, audit, drawn>>

\* what a step of crawl() cannot change: its source file, the site, the
\* cutoff computed when crawl() began, and the calls of the parser and of
\* randomDelay studied on their own
env == <<crawler, siteEnds, cutoffDate, parsed, drawn>>
\* locals of the body of the while loop
scope == <<articles, visitedDetailPage, crawledInThisPage, detail>>
\* locals that live across iterations of the while loop
session == <<pageNum, shouldStop, maxArticleNo, totalCrawled>>
store == <<visited, visitedFile, fileKind, jsonl, sorted>>
ledger == <<firstPageMax, appended, added, prevAppended, orphaned,
           lastFetchTimedOut>>
pace == <<naps, fetchGap>>
history == <<ledger, pageEnd, pace>>

\* no page has been completed since the listing was read
NoPageEnd == [page |-> 0, crawled |-> FALSE, slept |-> {}]
op == <<recoveryWaits, attempts, reloaded>>

\* the audit after a step that took the rows ids and met the failure cause
Noted(ids, cause) ==
    audit' = IF audit.on
             THEN [audit EXCEPT
                     !.due = @ \cup ids,
                     !.mishap = IF cause = "fault" THEN "fault"
                                ELSE IF cause = "error" /\ @ = "none"
                                     THEN "error"
                                ELSE @]
             ELSE audit

\* the row the for loop is at
Cur == Head(articles)

\* pcs at which crawl() is suspended in an await (a signal can be delivered)
AwaitPcs == {"start", "list", "goto", "recoverNav", "recoverWait", "relist",
             "regoto", "extract", "postDelay", "pageRest", "goBack",
             "advance", "advRecoverNav", "advRecoverWait", "advRetry",
             "pageDelay", "finally"}

Running == pc \notin {"done", "exited"}

\* ------------------------------------------------------------------------
\* Init: a fresh data directory, first session about to enter the try block
\* ------------------------------------------------------------------------
Init ==
    /\ crawler \in Crawlers
    /\ siteEnds = TRUE
    /\ cutoffDate = getDateMonthsAgo
    /\ parsed = NoParse
    /\ audit = [on |-> FALSE, due |-> {}, mishap |-> "none"]
    /\ drawn = [min |-> 0, max |-> 0, d |-> 0, done |-> FALSE]
    /\ run = 1
    /\ pc = "start"
    /\ handler = "idle"
    /\ pageNum = 1
    /\ articles = <<>>
    /\ shouldStop = FALSE
    /\ maxArticleNo = 0
    /\ visitedDetailPage = FALSE
    /\ crawledInThisPage = 0
    /\ detail = "none"
    /\ totalCrawled = 0
    /\ visited = {}
    /\ visitedFile = {}
    /\ fileKind = "missing"
    /\ jsonl = <<>>
    /\ sorted = FALSE
    /\ firstPageMax = 0
    /\ appended = {}
    /\ added = {}
    /\ prevAppended = {}
    /\ orphaned = {}
    /\ lastFetchTimedOut = FALSE
    /\ pageEnd = NoPageEnd
    /\ naps = {}
    /\ fetchGap = "nofetch"
    /\ recoveryWaits = 0
    /\ reloaded = FALSE
    /\ attempts = 0
    /\ exitPath = "none"

\* the locals of the loop body are no longer read
ScopeLeft ==
    /\ articles' = <<>>
    /\ visitedDetailPage' = FALSE
    /\ crawledInThisPage' = 0
    /\ detail' = "none"

\* the stall-prone operation is over
OpOver ==
    /\ recoveryWaits' = 0
    /\ reloaded' = FALSE
    /\ attempts' = 0

\* a variant of LeaveLoop: the process ends without the finally block
LeaveLoop_SkipsFinally(path) ==
    /\ pc' = "exited"
    /\ exitPath' = path
    /\ ScopeLeft
    /\ OpOver

\* leaving the while loop for the finally block
LeaveLoop(path) ==
    /\ pc' = "finally"
    /\ exitPath' = path
    /\ ScopeLeft
    /\ OpOver

\* ------------------------------------------------------------------------
\* First page load
\* ------------------------------------------------------------------------
\* the first page.goto (and the selector wait) succeeds
StartOk ==
    /\ pc = "start"
    /\ pc' = "list"
    /\ UNCHANGED <<env, audit, run, handler, scope, session, store, history,
                   op, exitPath>>

\* the first page.goto throws, or no list selector is found
StartFail ==
    /\ pc = "start"
    /\ LeaveLoop("error")
    /\ UNCHANGED <<env, audit, run, handler, session, store, history>>

\* ------------------------------------------------------------------------
\* Reading a listing page
\* ------------------------------------------------------------------------
\* the model follows a site that never ends up to this page number
PageCap == MaxPages + 1

\* pageNum++.  On a site that never ends the pages from PageCap on are told
\* apart no further: the counter stays at PageCap while the loop goes on.
NextPageNum(p) == IF ~siteEnds /\ p >= PageCap THEN p ELSE p + 1

\* a variant of SitePages: no page of the site is ever empty
SitePages_NeverEmpty(c, p, ends) == ListingPages(c) \ {<<>>}

\* what the site shows at page number p: nothing beyond its last page, or,
\* for a site that never shows an empty page, rows at every page number
SitePages(c, p, ends) ==
    IF ends
    THEN IF p > MaxPages THEN {<<>>} ELSE ListingPages(c)
    ELSE ListingPages(c) \ {<<>>}

\* a variant of CeilingAfter: the ceiling follows every page read
CeilingAfter_EveryPage(c, p, ceiling, arts) ==
    IF c = "community" THEN MaxArticleNoOf(arts) ELSE ceiling

\* the ceiling after reading a page: set once, on page 1, community only
CeilingAfter(c, p, ceiling, arts) ==
    IF c = "community" /\ p = 1 /\ ceiling = 0
    THEN MaxArticleNoOf(arts) ELSE ceiling

ReadListing ==
    /\ pc = "list"
    /\ pageNum <= PageCap
    /\ \E page \in SitePages(crawler, pageNum, siteEnds) :
        IF page = <<>>
        THEN /\ LeaveLoop("empty")
             /\ UNCHANGED <<maxArticleNo, firstPageMax>>
        ELSE /\ articles' = page
             /\ maxArticleNo' = CeilingAfter(crawler, pageNum, maxArticleNo, page)
             /\ visitedDetailPage' = FALSE
             /\ crawledInThisPage' = 0
             /\ detail' = "none"
             /\ firstPageMax' =
                   IF firstPageMax = 0 THEN MaxArticleNoOf(page) ELSE firstPageMax
             /\ pc' = "item"
             /\ UNCHANGED <<op, exitPath>>
    /\ pageEnd' = NoPageEnd
    /\ naps' = {}
    /\ UNCHANGED <<env, audit, run, handler, pageNum, shouldStop, totalCrawled,
                   store, appended, added, prevAppended, orphaned,
                   lastFetchTimedOut, fetchGap>>

\* page.evaluate of the listing throws: the outer catch, then finally
ReadListingFail ==
    /\ pc = "list"
    /\ pageNum <= PageCap
    /\ LeaveLoop("error")
    /\ UNCHANGED <<env, audit, run, handler, session, store, history>>

\* ------------------------------------------------------------------------
\* Admission of one listing row
\* ------------------------------------------------------------------------
\* a variant of AdmissionCommunity: the ceiling test is missing
AdmissionCommunity_NoCeiling(art, ceiling, vis) ==
    IF art.datetimeRaw.fmt = "empty" THEN "nodate"
    ELSE IF isBeforeCutoff("community", art.datetimeRaw) THEN "cutoff"
    ELSE IF VisitedHas(vis, art.articleNo) THEN "visited"
    ELSE "fetch"

\* a variant of AdmissionCommunity: the visited test comes before the cutoff
AdmissionCommunity_VisitedFirst(art, ceiling, vis) ==
    IF ceiling # 0 /\ art.articleNo > ceiling THEN "future"
    ELSE IF art.datetimeRaw.fmt = "empty" THEN "nodate"
    ELSE IF VisitedHas(vis, art.articleNo) THEN "visited"
    ELSE IF isBeforeCutoff("community", art.datetimeRaw) THEN "cutoff"
    ELSE "fetch"

\* a variant of AdmissionCommunity: a row whose date cannot be read is
\* skipped like a row without a date
AdmissionCommunity_SkipsUnparsable(art, ceiling, vis) ==
    IF ceiling # 0 /\ art.articleNo > ceiling THEN "future"
    ELSE IF art.datetimeRaw.fmt # "ok" THEN "nodate"
    ELSE IF isBeforeCutoff("community", art.datetimeRaw) THEN "cutoff"
    ELSE IF VisitedHas(vis, art.articleNo) THEN "visited"
    ELSE "fetch"

\* The checks of the community for loop, in source order
AdmissionCommunity(art, ceiling, vis) ==
    IF ceiling # 0 /\ art.articleNo > ceiling THEN "future"
    ELSE IF art.datetimeRaw.fmt = "empty" THEN "nodate"
    ELSE IF isBeforeCutoff("community", art.datetimeRaw) THEN "cutoff"
    ELSE IF VisitedHas(vis, art.articleNo) THEN "visited"
    ELSE "fetch"

\* a variant of AdmissionNotice: the visited test is left out
AdmissionNotice_IgnoresVisited(art, vis) ==
    IF parseNoticeThrows(art.datetimeRaw) THEN "parseError"
    ELSE IF isBeforeCutoff("notice", art.datetimeRaw) THEN "cutoff"
    ELSE "fetch"

\* The checks of the notice for loop, in source order
AdmissionNotice(art, vis) ==
    IF VisitedHas(vis, art.articleNo) THEN "visited"
    ELSE IF parseNoticeThrows(art.datetimeRaw) THEN "parseError"
    ELSE IF isBeforeCutoff("notice", art.datetimeRaw) THEN "cutoff"
    ELSE "fetch"

Admission(c, art, ceiling, vis) ==
    IF c = "community" THEN AdmissionCommunity(art, ceiling, vis)
    ELSE AdmissionNotice(art, vis)

\* continue: the row is skipped
SkipRow ==
    /\ articles' = Tail(articles)
    /\ UNCHANGED <<pc, shouldStop, visitedDetailPage, crawledInThisPage,
                   detail, op, exitPath>>

\* a variant of StopAtCutoff: the row before the cutoff is only skipped
StopAtCutoff_Continues == SkipRow

\* shouldStop = true; break.  The community crawler then breaks out of the
\* while loop at once, the notice crawler first passes the page rest.
StopAtCutoff ==
    /\ shouldStop' = TRUE
    /\ IF crawler = "community"
       THEN LeaveLoop("cutoff")
       ELSE /\ pc' = "pageRest"
            /\ articles' = <<>>
            /\ UNCHANGED <<visitedDetailPage, crawledInThisPage, detail, op,
                           exitPath>>

\* a variant of IssueFetch: the admitted row is passed over, no page.goto
IssueFetch_PassesOver == SkipRow

\* page.goto(articleUrl) is issued
IssueFetch ==
    /\ pc' = "goto"
    /\ attempts' = 1
    /\ recoveryWaits' = 0
    /\ reloaded' = FALSE
    /\ UNCHANGED <<scope, shouldStop, exitPath>>

\* one iteration of the for loop up to its first await (or continue/break)
ConsiderItem ==
    /\ pc = "item"
    /\ articles # <<>>
    /\ LET verdict == Admission(crawler, Cur, maxArticleNo, visited)
       IN /\ CASE verdict \in {"future", "nodate", "visited"} -> SkipRow
               [] verdict = "cutoff" -> StopAtCutoff
               [] verdict = "parseError" ->
                      LeaveLoop("error") /\ UNCHANGED shouldStop
               [] verdict = "fetch" -> IssueFetch
          /\ fetchGap' = IF verdict = "fetch" THEN "unpaced" ELSE fetchGap
    /\ naps' = {}
    /\ Noted(IF /\ Cur.articleNo <= firstPageMax
                /\ Cur.datetimeRaw.fmt = "ok"
                /\ ~isBeforeCutoff(crawler, Cur.datetimeRaw)
                /\ Cur.articleNo \notin visited \ added
             THEN {Cur.articleNo} ELSE {}, "none")
    /\ UNCHANGED <<env, run, handler, pageNum, maxArticleNo, totalCrawled,
                   store, ledger, pageEnd>>

\* the for loop ran off the end of the page
PageDone ==
    /\ pc = "item"
    /\ articles = <<>>
    /\ pc' = "pageRest"
    /\ pageNum' = IF crawler = "community" THEN NextPageNum(pageNum)
                 ELSE pageNum
    /\ naps' = {}
    /\ UNCHANGED <<env, audit, run, handler, scope, shouldStop, maxArticleNo,
                   totalCrawled, store, ledger, pageEnd, fetchGap, op,
                   exitPath>>

\* ------------------------------------------------------------------------
\* Detail page: page.goto, recovery, extraction, append
\* ------------------------------------------------------------------------
\* continue / end of the iteration without the between-posts delay
NextItem ==
    /\ articles' = Tail(articles)
    /\ detail' = "none"
    /\ pc' = "item"
    /\ OpOver

\* community: catch (e) of the per-article try
CatchArticleError ==
    /\ visitedDetailPage' = TRUE
    /\ pc' = "postDelay"

\* notice: the loaded detail page is given time to settle
SettleSleep ==
    IF crawler = "notice"
    THEN naps' \in NapsOf({"settle"}) /\ fetchGap' = "paced"
    ELSE UNCHANGED pace

\* the first page.goto(articleUrl) succeeds
GotoOk ==
    /\ pc = "goto"
    /\ visitedDetailPage' = TRUE
    /\ lastFetchTimedOut' = FALSE
    /\ SettleSleep
    /\ pc' = "extract"
    /\ UNCHANGED <<env, audit, run, handler, articles, crawledInThisPage, detail,
                   session, store, firstPageMax, appended, added,
                   prevAppended, orphaned, pageEnd,
                   op, exitPath>>

\* the navigation times out: both crawlers start the recovery
GotoTimeout ==
    /\ pc = "goto"
    /\ pc' = "recoverNav"
    /\ Noted({}, "fault")
    /\ UNCHANGED <<env, run, handler, scope, session, store, history,
                   op, exitPath>>

\* the navigation fails with another error: the community crawler rethrows
\* it to the per-article catch, the notice crawler recovers as for a timeout
GotoError ==
    /\ pc = "goto"
    /\ IF crawler = "community"
       THEN CatchArticleError /\ lastFetchTimedOut' = FALSE
       ELSE /\ pc' = "recoverNav"
            /\ UNCHANGED <<visitedDetailPage, lastFetchTimedOut>>
    /\ Noted({}, "error")
    /\ UNCHANGED <<env, run, handler, articles, crawledInThisPage, detail,
                   session, store, firstPageMax, appended, added,
                   prevAppended, orphaned, pageEnd, pace,
                   op, exitPath>>

\* back to the listing root: page.goto(BASE_URL) succeeds
RecoverNavOk ==
    /\ pc = "recoverNav"
    /\ pc' = "recoverWait"
    /\ UNCHANGED <<env, audit, run, handler, scope, session, store, history,
                   op, exitPath>>

\* a variant of RecoverNavReload: the recovery wait is left out
RecoverNavReload_NoWait ==
    /\ pc = "recoverNav"
    /\ reloaded' = TRUE
    /\ pc' = "item"
    /\ articles' = Tail(articles)
    /\ UNCHANGED <<env, audit, run, handler, visitedDetailPage, crawledInThisPage,
                   detail, session, store, history, recoveryWaits, attempts,
                   exitPath>>

\* page.goto(BASE_URL) throws and page.reload in its catch succeeds
RecoverNavReload ==
    /\ pc = "recoverNav"
    /\ reloaded' = TRUE
    /\ pc' = "recoverWait"
    /\ UNCHANGED <<env, audit, run, handler, scope, session, store, history,
                   recoveryWaits, attempts, exitPath>>

\* page.reload throws too: the per-article catch takes it (the message is
\* not the final-failure one, so the notice crawler goes on with the next row)
RecoverNavFail ==
    /\ pc = "recoverNav"
    /\ IF crawler = "community"
       THEN CatchArticleError /\ UNCHANGED <<articles, detail, op>>
       ELSE NextItem /\ UNCHANGED visitedDetailPage
    /\ UNCHANGED <<env, audit, run, handler, crawledInThisPage, session, store,
                   history, exitPath>>

\* a variant of AfterRecoveryWait: the community crawler retries the goto too
AfterRecoveryWait_AlwaysRetry(c) == "regoto"

\* what follows sleep(RECOVERY_WAIT) of a detail fetch: the community
\* crawler reloads the listing page, the notice crawler retries the goto
AfterRecoveryWait(c) == IF c = "community" THEN "relist" ELSE "regoto"

RecoverWait ==
    /\ pc = "recoverWait"
    /\ recoveryWaits' = recoveryWaits + 1
    /\ UNCHANGED reloaded
    /\ pc' = AfterRecoveryWait(crawler)
    /\ attempts' = IF pc' = "regoto" THEN attempts + 1 ELSE attempts
    /\ lastFetchTimedOut' = TRUE
    /\ naps' \in NapsOf({"recoveryWait"})
    /\ fetchGap' = IF pc' = "regoto" THEN "unpaced" ELSE "paced"
    /\ UNCHANGED <<env, audit, run, handler, scope, session, store, firstPageMax,
                   appended, added, prevAppended, orphaned, pageEnd, exitPath>>

\* community: Article.ArticleList(pageNum), sleep(5000), continue
RelistOk ==
    /\ pc = "relist"
    /\ naps' \in NapsOf({"relistWait"})
    /\ fetchGap' = Paced(fetchGap)
    /\ NextItem
    /\ UNCHANGED <<env, audit, run, handler, visitedDetailPage,
                   crawledInThisPage, session, store, ledger, pageEnd,
                   exitPath>>

\* community: that page.evaluate throws into the per-article catch
RelistFail ==
    /\ pc = "relist"
    /\ CatchArticleError
    /\ UNCHANGED <<env, audit, run, handler, articles, crawledInThisPage, detail,
                   session, store, history, op, exitPath>>

\* notice: the retried page.goto(articleUrl) succeeds
RegotoOk ==
    /\ pc = "regoto"
    /\ visitedDetailPage' = TRUE
    /\ lastFetchTimedOut' = FALSE
    /\ SettleSleep
    /\ pc' = "extract"
    /\ UNCHANGED <<env, audit, run, handler, articles, crawledInThisPage, detail,
                   session, store, firstPageMax, appended, added,
                   prevAppended, orphaned, pageEnd,
                   op, exitPath>>

\* a variant of RegotoFail: the error of the retry is swallowed by the
\* per-article catch and the loop goes on with the next row
RegotoFail_Swallowed ==
    /\ pc = "regoto"
    /\ NextItem
    /\ UNCHANGED <<env, audit, run, handler, visitedDetailPage,
                   crawledInThisPage, session, store, history, exitPath>>

\* notice: the retry fails, the final-failure error goes to the outer catch
RegotoFail ==
    /\ pc = "regoto"
    /\ LeaveLoop("fatal-detail")
    /\ UNCHANGED <<env, audit, run, handler, session, store, history>>

\* postData: the community record carries the listing's datetime_raw, the
\* notice record takes its date from the detail page
PostData(c, art) ==
    IF c = "community"
    THEN [article_no |-> art.articleNo, datetime_raw |-> art.datetimeRaw]
    ELSE [article_no |-> art.articleNo]

\* JsonlWriter.append(postData)
JsonlAppend(file, post) == Append(file, post)

\* VisitedManager.add: this.visited.add(articleNo); this.save()
VisitedAdd(set, articleNo) == set \cup {articleNo}

\* a variant of VisitedSave: the file is not written
VisitedSave_Skipped(set) == UNCHANGED <<visitedFile, fileKind>>

\* VisitedManager.save: writeFileSync of { visited: Array.from(set) }
VisitedSave(set) ==
    /\ visitedFile' = set
    /\ fileKind' = "snapshot"

\* a variant of Ingest: the record is appended and the mark is left for
\* later, as if an await stood between append and add
Ingest_AppendOnly(art) ==
    /\ jsonl' = JsonlAppend(jsonl, PostData(crawler, art))
    /\ totalCrawled' = totalCrawled + 1
    /\ crawledInThisPage' = crawledInThisPage + 1
    /\ appended' = appended \cup {art.articleNo}
    /\ UNCHANGED <<visited, visitedFile, fileKind, added, sorted>>

\* a variant of Ingest: the id is marked visited but no record is written
Ingest_MarkWithoutRecord(art) ==
    /\ visited' = VisitedAdd(visited, art.articleNo)
    /\ VisitedSave(VisitedAdd(visited, art.articleNo))
    /\ totalCrawled' = totalCrawled + 1
    /\ crawledInThisPage' = crawledInThisPage + 1
    /\ added' = added \cup {art.articleNo}
    /\ UNCHANGED <<jsonl, appended, sorted>>

\* writer.append(postData); visited.add(article_no); totalCrawled++;
\* crawledInThisPage++ : synchronous, no await in between
Ingest(art) ==
    /\ jsonl' = JsonlAppend(jsonl, PostData(crawler, art))
    /\ visited' = VisitedAdd(visited, art.articleNo)
    /\ VisitedSave(VisitedAdd(visited, art.articleNo))
    /\ totalCrawled' = totalCrawled + 1
    /\ crawledInThisPage' = crawledInThisPage + 1
    /\ appended' = appended \cup {art.articleNo}
    /\ added' = added \cup {art.articleNo}
    /\ UNCHANGED sorted

\* the detail was extracted; the community crawler then formats the date,
\* which throws into the per-article catch for a malformed date string
ExtractOk ==
    /\ pc = "extract"
    /\ detail' = "ok"
    /\ IF crawler = "community" /\ parseDateThrows(Cur.datetimeRaw)
       THEN UNCHANGED <<store, totalCrawled, crawledInThisPage, appended, added>>
       ELSE Ingest(Cur)
    /\ pc' = "postDelay"
    /\ UNCHANGED <<env, audit, run, handler, articles, visitedDetailPage, pageNum,
                   shouldStop, maxArticleNo, firstPageMax, prevAppended,
                   orphaned, pageEnd, pace,
                   lastFetchTimedOut, op, exitPath>>

\* a variant of ExtractFail: the id is marked visited although nothing was
\* extracted
ExtractFail_MarksVisited ==
    /\ pc = "extract"
    /\ IF crawler = "community"
       THEN pc' = "postDelay" /\ detail' = "null" /\ UNCHANGED <<articles, op>>
       ELSE NextItem
    /\ visited' = VisitedAdd(visited, Cur.articleNo)
    /\ VisitedSave(VisitedAdd(visited, Cur.articleNo))
    /\ added' = added \cup {Cur.articleNo}
    /\ Noted({}, "fault")
    /\ UNCHANGED <<env, run, handler, visitedDetailPage,
                   crawledInThisPage, session, jsonl, sorted, firstPageMax,
                   appended, prevAppended, orphaned, pageEnd, pace,
                   lastFetchTimedOut, exitPath>>

\* a variant of ExtractFail: the error leaves the while loop
ExtractFail_Aborts ==
    /\ pc = "extract"
    /\ LeaveLoop("error")
    /\ Noted({}, "fault")
    /\ UNCHANGED <<env, run, handler, session, store, history>>

\* extraction fails: parseArticleDetail returns null (community), or
\* page.evaluate throws into the per-article catch (notice)
ExtractFail ==
    /\ pc = "extract"
    /\ IF crawler = "community"
       THEN pc' = "postDelay" /\ detail' = "null" /\ UNCHANGED <<articles, op>>
       ELSE NextItem
    /\ Noted({}, "fault")
    /\ UNCHANGED <<env, run, handler, visitedDetailPage,
                   crawledInThisPage, session, store, history, exitPath>>

\* sleep(postDelay), and the every-10-posts rest when it is due
PostDelay ==
    /\ pc = "postDelay"
    /\ naps' \in NapsOf({"betweenPosts"}
                        \cup IF PostRestDue(crawler, totalCrawled)
                             THEN {"every10Posts"} ELSE {})
    /\ fetchGap' = Paced(fetchGap)
    /\ NextItem
    /\ UNCHANGED <<env, audit, run, handler, visitedDetailPage,
                   crawledInThisPage, session, store, ledger, pageEnd,
                   exitPath>>

\* ------------------------------------------------------------------------
\* End of a page and the page advance
\* ------------------------------------------------------------------------
\* a variant of IssueAdvance: pageNum is incremented here by both crawlers
IssueAdvance_AlwaysIncrements ==
    /\ pc' = "advance"
    /\ pageNum' = pageNum + 1
    /\ ScopeLeft
    /\ attempts' = 1
    /\ recoveryWaits' = 0
    /\ reloaded' = FALSE

\* the page advance is issued: Article.ArticleList(pageNum)
IssueAdvance ==
    /\ pc' = "advance"
    /\ pageNum' = IF crawler = "notice" THEN NextPageNum(pageNum)
                 ELSE pageNum
    /\ ScopeLeft
    /\ attempts' = 1
    /\ recoveryWaits' = 0
    /\ reloaded' = FALSE

\* a variant of RestTiers: the tiers are tested one independently of the
\* other
RestTiers_Additive(page, crawled) ==
    IF crawled = 0 THEN {}
    ELSE (IF page % LongRestEvery = 0 THEN {"every10Pages"} ELSE {})
         \cup (IF page % ShortRestEvery = 0 THEN {"every3Pages"} ELSE {})

\* a variant of RestTiers: the tiers are slept whatever the page yielded
RestTiers_AlwaysRests(page, crawled) ==
    IF page % LongRestEvery = 0 THEN {"every10Pages"}
    ELSE IF page % ShortRestEvery = 0 THEN {"every3Pages"}
    ELSE {}

\* the rests slept after a completed page: if (crawledInThisPage > 0)
\* { if (page % 10 === 0) ... else if (page % 3 === 0) ... }
RestTiers(page, crawled) ==
    IF crawled = 0 THEN {}
    ELSE IF page % LongRestEvery = 0 THEN {"every10Pages"}
    ELSE IF page % ShortRestEvery = 0 THEN {"every3Pages"}
    ELSE {}

\* the number of the page the for loop has just completed: the community
\* crawler has incremented pageNum already, the notice crawler has not
CompletedPage(c, p) == IF c = "community" THEN p - 1 ELSE p

\* The rest tiers after a page (slept only if crawledInThisPage > 0).  The
\* community crawler has tested shouldStop before; the notice crawler tests
\* it after the rest.
PageRest ==
    /\ pc = "pageRest"
    /\ LET page == CompletedPage(crawler, pageNum)
       IN /\ pageEnd' = [page |-> page,
                         crawled |-> crawledInThisPage > 0,
                         slept |-> RestTiers(page, crawledInThisPage)]
          /\ naps' \in NapsOf(RestTiers(page, crawledInThisPage))
          /\ fetchGap' = IF RestTiers(page, crawledInThisPage) = {}
                         THEN fetchGap ELSE Paced(fetchGap)
    /\ IF crawler = "notice" /\ shouldStop
       THEN LeaveLoop("cutoff") /\ UNCHANGED pageNum
       ELSE IF visitedDetailPage
            THEN pc' = "goBack" /\ UNCHANGED <<pageNum, scope, op, exitPath>>
            ELSE IssueAdvance /\ UNCHANGED exitPath
    /\ UNCHANGED <<env, audit, run, handler, shouldStop, maxArticleNo,
                   totalCrawled, store, ledger>>

\* back to the listing: page.goBack or page.goto(BASE_URL) (community),
\* page.goto(BASE_URL) and the filter click (notice)
GoBackOk ==
    /\ pc = "goBack"
    /\ IssueAdvance
    /\ UNCHANGED <<env, audit, run, handler, shouldStop, maxArticleNo,
                   totalCrawled, store, history, exitPath>>

\* the page.goto(BASE_URL) throws: it is outside the inner try blocks
GoBackFail ==
    /\ pc = "goBack"
    /\ LeaveLoop("error")
    /\ UNCHANGED <<env, audit, run, handler, session, store, history>>

\* Article.ArticleList(pageNum) was called and waitForPageLoad saw the page
AdvanceOk ==
    /\ pc = "advance"
    /\ pc' = "pageDelay"
    /\ UNCHANGED <<env, audit, run, handler, scope, session, store, history,
                   op, exitPath>>

\* no Article.ArticleList and no pagination button to click: break
AdvanceNoMore ==
    /\ pc = "advance"
    /\ LeaveLoop("nomore")
    /\ UNCHANGED <<env, audit, run, handler, session, store, history>>

\* a page.evaluate or the page.reload of the advance throws: catch (e)
AdvanceError ==
    /\ pc \in {"advance", "advRecoverNav", "advRecoverWait", "advRetry"}
    /\ LeaveLoop("error")
    /\ UNCHANGED <<env, audit, run, handler, session, store, history>>

\* waitForPageLoad returns false after PAGE_LOAD
AdvanceTimeout ==
    /\ pc = "advance"
    /\ pc' = "advRecoverNav"
    /\ UNCHANGED <<env, audit, run, handler, scope, session, store, history,
                   op, exitPath>>

\* page.goto(BASE_URL) succeeds
AdvRecoverNavOk ==
    /\ pc = "advRecoverNav"
    /\ pc' = "advRecoverWait"
    /\ UNCHANGED <<env, audit, run, handler, scope, session, store, history,
                   op, exitPath>>

\* page.goto(BASE_URL) throws and page.reload in its catch succeeds
AdvRecoverNavReload ==
    /\ pc = "advRecoverNav"
    /\ reloaded' = TRUE
    /\ pc' = "advRecoverWait"
    /\ UNCHANGED <<env, audit, run, handler, scope, session, store, history,
                   recoveryWaits, attempts, exitPath>>

\* sleep(RECOVERY_WAIT), then Article.ArticleList(pageNum) again
AdvRecoverWait ==
    /\ pc = "advRecoverWait"
    /\ recoveryWaits' = recoveryWaits + 1
    /\ UNCHANGED reloaded
    /\ attempts' = attempts + 1
    /\ pc' = "advRetry"
    /\ naps' \in NapsOf({"recoveryWait"})
    /\ fetchGap' = Paced(fetchGap)
    /\ UNCHANGED <<env, audit, run, handler, scope, session, store, ledger,
                   pageEnd, exitPath>>

\* the second waitForPageLoad saw the page
AdvRetryOk ==
    /\ pc = "advRetry"
    /\ pc' = "pageDelay"
    /\ UNCHANGED <<env, audit, run, handler, scope, session, store, history,
                   op, exitPath>>

\* a variant of AdvRetryTimeout: the recovery is started over
AdvRetryTimeout_RetriesAgain ==
    /\ pc = "advRetry"
    /\ pc' = "advRecoverNav"
    /\ UNCHANGED <<env, audit, run, handler, scope, session, store, history,
                   op, exitPath>>

\* the second waitForPageLoad returns false: throw, the loop is left
AdvRetryTimeout ==
    /\ pc = "advRetry"
    /\ LeaveLoop("fatal-advance")
    /\ UNCHANGED <<env, audit, run, handler, session, store, history>>

\* sleep(pageDelay), then the next iteration of the while loop
PageDelay ==
    /\ pc = "pageDelay"
    /\ pc' = "list"
    /\ pageEnd' = [pageEnd EXCEPT !.slept = @ \cup {"betweenPages"}]
    /\ naps' \in NapsOf({"betweenPages"})
    /\ fetchGap' = Paced(fetchGap)
    /\ OpOver
    /\ UNCHANGED <<env, audit, run, handler, scope, session, store, ledger,
                   exitPath>>

\* ------------------------------------------------------------------------
\* finally: browser.close() and the re-sort of the JSONL file
\* ------------------------------------------------------------------------
FinallySorted ==
    /\ pc = "finally"
    /\ jsonl' = SortDesc(jsonl)
    /\ sorted' = TRUE
    /\ pc' = "done"
    /\ UNCHANGED <<env, audit, run, handler, scope, session, visited,
                   visitedFile, fileKind, history, op, exitPath>>

\* a variant of FinallySortFails: the file was emptied before the error
FinallySortFails_LosesLines ==
    /\ pc = "finally"
    /\ pc' = "done"
    /\ jsonl' = <<>>
    /\ UNCHANGED <<env, audit, run, handler, scope, session, visited,
                   visitedFile, fileKind, sorted, history, op, exitPath>>

\* the read or the parse of the re-sort throws: catch (sortErr)
FinallySortFails ==
    /\ pc = "finally"
    /\ pc' = "done"
    /\ UNCHANGED <<env, audit, run, handler, scope, session, store, history,
                   op, exitPath>>

\* ------------------------------------------------------------------------
\* SIGINT
\* ------------------------------------------------------------------------
\* the process ends by the signal; its locals are gone
ProcessKilled ==
    /\ pc' = "exited"
    /\ exitPath' = "interrupt"
    /\ ScopeLeft
    /\ OpOver

\* community: the handler runs visitedManager.save() and awaits
\* browser.close().  notice: no handler is installed, the process dies.
Interrupt ==
    /\ pc \in AwaitPcs
    /\ handler = "idle"
    /\ IF crawler = "community"
       THEN /\ handler' = "closing"
            /\ VisitedSave(visited)
            /\ UNCHANGED <<pc, exitPath, scope, op>>
       ELSE /\ ProcessKilled
            /\ UNCHANGED <<handler, visitedFile, fileKind>>
    /\ UNCHANGED <<env, audit, run, session, visited, jsonl, sorted, history>>

\* notice: without a handler the signal ends the process at whatever
\* statement it is executing, so also after writer.append(postData) and
\* before visited.add(article_no); every other pair of statements leaves
\* the files as a kill at the await before or after them does
KilledBeforeAdd ==
    /\ crawler = "notice"
    /\ pc = "extract"
    /\ jsonl' = JsonlAppend(jsonl, PostData(crawler, Cur))
    /\ appended' = appended \cup {Cur.articleNo}
    /\ orphaned' = orphaned \cup {Cur.articleNo}
    /\ pc' = "exited"
    /\ exitPath' = "killed"
    /\ ScopeLeft
    /\ OpOver
    /\ UNCHANGED <<env, audit, run, handler, session, visited, visitedFile,
                   fileKind,
                   sorted, firstPageMax, added, prevAppended,
                   lastFetchTimedOut, pageEnd, pace>>

\* community: browser.close() of the handler returned, process.exit(0)
HandlerExit ==
    /\ handler = "closing"
    /\ pc \in AwaitPcs
    /\ ProcessKilled
    /\ UNCHANGED <<env, audit, run, handler, session, store, history>>

\* ------------------------------------------------------------------------
\* The next session on the same day: the constructors of VisitedManager
\* (load) and JsonlWriter (the existing file is kept)
\* ------------------------------------------------------------------------
\* an entry of a visited array that is no article number: a character of
\* a string, a null, a nested value
NotAnId == 0

\* what data/visited.json can hold when a VisitedManager is constructed
FileKinds ==
    {"missing",       \* existsSync is false
     "snapshot",      \* written by save: { visited: [ids] }
     "notJson",       \* JSON.parse throws (cut short, not JSON)
     "jsonNull",      \* the JSON text null: data.visited throws
     "noVisited",     \* JSON without a truthy visited: data.visited || []
     "notIterable",   \* visited is a number or an object: new Set throws
     "foreign"}       \* visited is a string, or an array with other entries

\* the entries new Set(data.visited) would iterate over, by kind
FileEntries(kind) ==
    CASE kind = "snapshot" -> SUBSET Ids
      [] kind = "foreign" -> {e \cup {NotAnId} : e \in SUBSET Ids}
      [] OTHER -> {{}}

\* a variant of VisitedLoad: the persisted snapshot is not read
VisitedLoad_Forgets(kind, entries) == {}

\* VisitedManager.load: the set stays empty when the file is missing and
\* is reset to empty in the catch; otherwise new Set(data.visited || [])
VisitedLoad(kind, entries) ==
    CASE kind = "missing" -> {}
      [] kind \in {"notJson", "jsonNull", "notIterable"} -> {}
      [] kind = "noVisited" -> {}
      [] kind \in {"snapshot", "foreign"} -> entries

Restart ==
    /\ ~Running
    /\ run < MaxRuns
    /\ run' = run + 1
    /\ pc' = "start"
    /\ handler' = "idle"
    /\ pageNum' = 1
    /\ shouldStop' = FALSE
    /\ maxArticleNo' = 0
    /\ totalCrawled' = 0
    /\ ScopeLeft
    /\ OpOver
    /\ visited' = VisitedLoad(fileKind, visitedFile)
    /\ sorted' = FALSE
    /\ firstPageMax' = 0
    /\ appended' = {}
    /\ added' = {}
    /\ prevAppended' = prevAppended \cup appended
    /\ lastFetchTimedOut' = FALSE
    /\ exitPath' = "none"
    /\ pageEnd' = NoPageEnd
    /\ naps' = {}
    /\ fetchGap' = "nofetch"
    /\ audit' = [audit EXCEPT !.due = {}, !.mishap = "none"]
    /\ UNCHANGED <<env, visitedFile, fileKind, jsonl, orphaned>>

Next ==
    \/ StartOk \/ StartFail
    \/ ReadListing \/ ReadListingFail
    \/ ConsiderItem \/ PageDone
    \/ GotoOk \/ GotoTimeout \/ GotoError
    \/ RecoverNavOk \/ RecoverNavReload \/ RecoverNavFail \/ RecoverWait
    \/ RelistOk \/ RelistFail \/ RegotoOk \/ RegotoFail
    \/ ExtractOk \/ ExtractFail \/ PostDelay
    \/ PageRest \/ GoBackOk \/ GoBackFail
    \/ AdvanceOk \/ AdvanceNoMore \/ AdvanceError \/ AdvanceTimeout
    \/ AdvRecoverNavOk \/ AdvRecoverNavReload \/ AdvRecoverWait
    \/ AdvRetryOk \/ AdvRetryTimeout
    \/ PageDelay
    \/ FinallySorted \/ FinallySortFails
    \/ Interrupt \/ KilledBeforeAdd \/ HandlerExit
    \/ Restart

Spec == Init /\ [][Next]_vars

\* ------------------------------------------------------------------------
\* Audited sessions: the sessions of Spec, with the audit kept
\* ------------------------------------------------------------------------
AuditInit ==
    /\ crawler \in Crawlers
    /\ siteEnds = TRUE
    /\ cutoffDate = getDateMonthsAgo
    /\ parsed = NoParse
    /\ audit = [on |-> TRUE, due |-> {}, mishap |-> "none"]
    /\ drawn = [min |-> 0, max |-> 0, d |-> 0, done |-> FALSE]
    /\ run = 1
    /\ pc = "start"
    /\ handler = "idle"
    /\ pageNum = 1
    /\ articles = <<>>
    /\ shouldStop = FALSE
    /\ maxArticleNo = 0
    /\ visitedDetailPage = FALSE
    /\ crawledInThisPage = 0
    /\ detail = "none"
    /\ totalCrawled = 0
    /\ visited = {}
    /\ visitedFile = {}
    /\ fileKind = "missing"
    /\ jsonl = <<>>
    /\ sorted = FALSE
    /\ firstPageMax = 0
    /\ appended = {}
    /\ added = {}
    /\ prevAppended = {}
    /\ orphaned = {}
    /\ lastFetchTimedOut = FALSE
    /\ pageEnd = NoPageEnd
    /\ naps = {}
    /\ fetchGap = "nofetch"
    /\ recoveryWaits = 0
    /\ reloaded = FALSE
    /\ attempts = 0
    /\ exitPath = "none"

AuditSpec == AuditInit /\ [][Next]_vars


\* ------------------------------------------------------------------------
\* The finally block alone, entered with any JSONL file of the day: lines
\* of earlier sessions in any order, repeated ids included
\* ------------------------------------------------------------------------
Records(c) == {PostData(c, art) : art \in Articles(c)}

JsonlFiles(c) == UNION {[1..n -> Records(c)] : n \in 0..MaxLines}

FinalizeInit ==
    /\ crawler \in Crawlers
    /\ siteEnds = TRUE
    /\ cutoffDate = getDateMonthsAgo
    /\ parsed = NoParse
    /\ audit = [on |-> FALSE, due |-> {}, mishap |-> "none"]
    /\ drawn = [min |-> 0, max |-> 0, d |-> 0, done |-> FALSE]
    /\ run = 1
    /\ pc = "finally"
    /\ handler = "idle"
    /\ pageNum = 1
    /\ articles = <<>>
    /\ shouldStop = FALSE
    /\ maxArticleNo = 0
    /\ visitedDetailPage = FALSE
    /\ crawledInThisPage = 0
    /\ detail = "none"
    /\ totalCrawled = 0
    /\ jsonl \in JsonlFiles(crawler)
    /\ visited = IdsOfLines(jsonl)
    /\ visitedFile = IdsOfLines(jsonl)
    /\ fileKind = "snapshot"
    /\ sorted = FALSE
    /\ firstPageMax = 0
    /\ appended = {}
    /\ added = {}
    /\ prevAppended = IdsOfLines(jsonl)
    /\ orphaned = {}
    /\ lastFetchTimedOut = FALSE
    /\ pageEnd = NoPageEnd
    /\ naps = {}
    /\ fetchGap = "nofetch"
    /\ recoveryWaits = 0
    /\ reloaded = FALSE
    /\ attempts = 0
    /\ exitPath = "empty"

FinalizeNext == FinallySorted \/ FinallySortFails

FinalizeSpec == FinalizeInit /\ [][FinalizeNext]_vars

\* ------------------------------------------------------------------------
\* The end of a page alone, from the last row of any page up to
\* MaxRestPage to the next listing, with k rows ingested on the page
\* ------------------------------------------------------------------------
FreshRow(k) ==
    [articleNo |-> k,
     datetimeRaw |-> [fmt |-> "ok", wall |-> 2 * KstOffsetHours]]

RestInit ==
    /\ crawler \in Crawlers
    /\ siteEnds = TRUE
    /\ cutoffDate = getDateMonthsAgo
    /\ parsed = NoParse
    /\ audit = [on |-> FALSE, due |-> {}, mishap |-> "none"]
    /\ drawn = [min |-> 0, max |-> 0, d |-> 0, done |-> FALSE]
    /\ run = 1
    /\ pc = "pageRest"
    /\ handler = "idle"
    /\ \E page \in 1..MaxRestPage :
          pageNum = IF crawler = "community" THEN page + 1 ELSE page
    /\ articles = <<>>
    /\ shouldStop = FALSE
    /\ maxArticleNo = IF crawler = "community" THEN MaxItems ELSE 0
    /\ crawledInThisPage \in 0..MaxItems
    /\ visitedDetailPage \in {b \in BOOLEAN : crawledInThisPage > 0 => b}
    /\ detail = "none"
    /\ totalCrawled = crawledInThisPage
    /\ jsonl = [k \in 1..crawledInThisPage |-> PostData(crawler, FreshRow(k))]
    /\ visited = 1..crawledInThisPage
    /\ visitedFile = visited
    /\ fileKind = "snapshot"
    /\ sorted = FALSE
    /\ firstPageMax = MaxItems
    /\ appended = visited
    /\ added = visited
    /\ prevAppended = {}
    /\ orphaned = {}
    /\ lastFetchTimedOut = FALSE
    /\ pageEnd = NoPageEnd
    /\ naps = {}
    /\ fetchGap = "nofetch"
    /\ recoveryWaits = 0
    /\ reloaded = FALSE
    /\ attempts = 0
    /\ exitPath = "none"

RestNext == PageRest \/ GoBackOk \/ AdvanceOk \/ PageDelay

RestSpec == RestInit /\ [][RestNext]_vars

\* ------------------------------------------------------------------------
\* The pacing of one page alone: the for loop over a page and the end of
\* the page, late in a session: up to PostRestEvery rows were ingested on
\* earlier pages (ids above those of this page), and the page number is
\* one at which the page rests are due
\* ------------------------------------------------------------------------
PacePages == {HeaderRestEvery, HeaderLongRestEvery}

LoopInit(pages) ==
    /\ crawler \in Crawlers
    /\ siteEnds = TRUE
    /\ cutoffDate = getDateMonthsAgo
    /\ parsed = NoParse
    /\ audit = [on |-> FALSE, due |-> {}, mishap |-> "none"]
    /\ drawn = [min |-> 0, max |-> 0, d |-> 0, done |-> FALSE]
    /\ run = 1
    /\ pc = "item"
    /\ handler = "idle"
    /\ pageNum \in PacePages
    /\ articles \in pages
    /\ shouldStop = FALSE
    /\ maxArticleNo = IF crawler = "community" THEN MaxId + PostRestEvery ELSE 0
    /\ visitedDetailPage = FALSE
    /\ crawledInThisPage = 0
    /\ detail = "none"
    /\ totalCrawled \in (PostRestEvery - MaxItems)..PostRestEvery
    /\ jsonl = [k \in 1..totalCrawled |-> PostData(crawler, FreshRow(MaxId + k))]
    /\ visited = IdsOfLines(jsonl)
    /\ visitedFile = visited
    /\ fileKind = "snapshot"
    /\ sorted = FALSE
    /\ firstPageMax = MaxId + PostRestEvery
    /\ appended = visited
    /\ added = visited
    /\ prevAppended = {}
    /\ orphaned = {}
    /\ lastFetchTimedOut = FALSE
    /\ pageEnd = NoPageEnd
    /\ naps = {}
    /\ fetchGap = "paced"
    /\ recoveryWaits = 0
    /\ reloaded = FALSE
    /\ attempts = 0
    /\ exitPath = "none"

PaceInit == LoopInit(ListingPages(crawler))

PaceNext ==
    \/ ConsiderItem \/ PageDone
    \/ GotoOk \/ GotoTimeout \/ GotoError
    \/ RecoverNavOk \/ RecoverNavReload \/ RecoverNavFail \/ RecoverWait
    \/ RelistOk \/ RelistFail \/ RegotoOk \/ RegotoFail
    \/ ExtractOk \/ ExtractFail \/ PostDelay
    \/ PageRest \/ GoBackOk \/ AdvanceOk \/ PageDelay

PaceSpec == PaceInit /\ [][PaceNext]_vars

\* ------------------------------------------------------------------------
\* The same loop over a page whose rows were posted around the instant
\* "session start minus MONTHS_TO_CRAWL months": one hour before it, at it,
\* one hour short of KstOffsetHours after it, and KstOffsetHours after it
\* ------------------------------------------------------------------------
\* session start minus MONTHS_TO_CRAWL months, as an instant
CutoffInstant == 0

\* the KST wall clock shows an instant KstOffsetHours later
NearCutoffClocks ==
    {i + KstOffsetHours : i \in {CutoffInstant - 1, CutoffInstant,
                                 CutoffInstant + KstOffsetHours - 1,
                                 CutoffInstant + KstOffsetHours}}

NearCutoffPages ==
    UNION {[1..n -> [articleNo : Ids,
                     datetimeRaw : {[fmt |-> "ok", wall |-> w] :
                                        w \in NearCutoffClocks}]] :
              n \in 0..MaxItems}

CutoffInit == LoopInit(NearCutoffPages)

CutoffSpec == CutoffInit /\ [][PaceNext]_vars

\* ------------------------------------------------------------------------
\* parseNoticeDate on its own: any clock, any dotted text
\* ------------------------------------------------------------------------
DateInit ==
    /\ crawler = "notice"
    /\ siteEnds = TRUE
    /\ cutoffDate = getDateMonthsAgo
    /\ parsed \in [kst : [year : Years, month : Months],
                 text : DateTexts, date : {NoDate}]
    /\ audit = [on |-> FALSE, due |-> {}, mishap |-> "none"]
    /\ drawn = [min |-> 0, max |-> 0, d |-> 0, done |-> FALSE]
    /\ run = 1
    /\ pc = "start"
    /\ handler = "idle"
    /\ pageNum = 1
    /\ articles = <<>>
    /\ shouldStop = FALSE
    /\ maxArticleNo = 0
    /\ visitedDetailPage = FALSE
    /\ crawledInThisPage = 0
    /\ detail = "none"
    /\ totalCrawled = 0
    /\ visited = {}
    /\ visitedFile = {}
    /\ fileKind = "missing"
    /\ jsonl = <<>>
    /\ sorted = FALSE
    /\ firstPageMax = 0
    /\ appended = {}
    /\ added = {}
    /\ prevAppended = {}
    /\ orphaned = {}
    /\ lastFetchTimedOut = FALSE
    /\ pageEnd = NoPageEnd
    /\ naps = {}
    /\ fetchGap = "nofetch"
    /\ recoveryWaits = 0
    /\ reloaded = FALSE
    /\ attempts = 0
    /\ exitPath = "none"

ParseNoticeDate ==
    /\ parsed.date = NoDate
    /\ parsed' = [parsed EXCEPT !.date = parseDottedDate(parsed.kst, parsed.text)]
    /\ UNCHANGED <<crawler, siteEnds, cutoffDate, audit, drawn, run, pc, handler,
                   scope,
                   session, store, history, op, exitPath>>

DateSpec == DateInit /\ [][ParseNoticeDate]_vars

\* ------------------------------------------------------------------------
\* randomDelay on its own: any two integers min <= max up to MaxDelay in
\* size, and the ranges of CONFIG.DELAY
\* ------------------------------------------------------------------------
DelayInit ==
    /\ crawler \in Crawlers
    /\ siteEnds = TRUE
    /\ cutoffDate = getDateMonthsAgo
    /\ parsed = NoParse
    /\ audit = [on |-> FALSE, due |-> {}, mishap |-> "none"]
    /\ drawn \in
          {[min |-> a, max |-> b, d |-> 0, done |-> FALSE] :
              <<a, b>> \in
                 {p \in (-MaxDelay..MaxDelay) \X (-MaxDelay..MaxDelay) :
                     p[1] <= p[2]}
                 \cup {<<BETWEEN_POSTS_MIN, BETWEEN_POSTS_MAX>>,
                       <<EVERY_10_POSTS_MIN, EVERY_10_POSTS_MAX>>,
                       <<BETWEEN_PAGES_MIN, BETWEEN_PAGES_MAX>>,
                       <<EVERY_3_PAGES_MIN, EVERY_3_PAGES_MAX>>,
                       <<EVERY_10_PAGES_MIN, EVERY_10_PAGES_MAX>>}}
    /\ run = 1
    /\ pc = "start"
    /\ handler = "idle"
    /\ pageNum = 1
    /\ articles = <<>>
    /\ shouldStop = FALSE
    /\ maxArticleNo = 0
    /\ visitedDetailPage = FALSE
    /\ crawledInThisPage = 0
    /\ detail = "none"
    /\ totalCrawled = 0
    /\ visited = {}
    /\ visitedFile = {}
    /\ fileKind = "missing"
    /\ jsonl = <<>>
    /\ sorted = FALSE
    /\ firstPageMax = 0
    /\ appended = {}
    /\ added = {}
    /\ prevAppended = {}
    /\ orphaned = {}
    /\ lastFetchTimedOut = FALSE
    /\ pageEnd = NoPageEnd
    /\ naps = {}
    /\ fetchGap = "nofetch"
    /\ recoveryWaits = 0
    /\ reloaded = FALSE
    /\ attempts = 0
    /\ exitPath = "none"

RandomDelayCall ==
    /\ ~drawn.done
    /\ \E d \in randomDelay(drawn.min, drawn.max) :
          drawn' = [drawn EXCEPT !.d = d, !.done = TRUE]
    /\ UNCHANGED <<crawler, siteEnds, cutoffDate, parsed, audit, run, pc,
                   handler, scope, session, store, history, op, exitPath>>

DelaySpec == DelayInit /\ [][RandomDelayCall]_vars

\* ------------------------------------------------------------------------
\* A session started on a data directory whose visited.json holds any of
\* FileKinds: the constructor of VisitedManager loads it, the crawl follows
\* ------------------------------------------------------------------------
LoadInit ==
    /\ crawler \in Crawlers
    /\ siteEnds \in BOOLEAN
    /\ cutoffDate = getDateMonthsAgo
    /\ parsed = NoParse
    /\ audit = [on |-> FALSE, due |-> {}, mishap |-> "none"]
    /\ drawn = [min |-> 0, max |-> 0, d |-> 0, done |-> FALSE]
    /\ run = 1
    /\ pc = "done"
    /\ handler = "idle"
    /\ pageNum = 1
    /\ articles = <<>>
    /\ shouldStop = FALSE
    /\ maxArticleNo = 0
    /\ visitedDetailPage = FALSE
    /\ crawledInThisPage = 0
    /\ detail = "none"
    /\ totalCrawled = 0
    /\ visited = {}
    /\ fileKind \in FileKinds
    /\ visitedFile \in FileEntries(fileKind)
    /\ jsonl = <<>>
    /\ sorted = FALSE
    /\ firstPageMax = 0
    /\ appended = {}
    /\ added = {}
    /\ prevAppended = {}
    /\ orphaned = {}
    /\ lastFetchTimedOut = FALSE
    /\ pageEnd = NoPageEnd
    /\ naps = {}
    /\ fetchGap = "nofetch"
    /\ recoveryWaits = 0
    /\ reloaded = FALSE
    /\ attempts = 0
    /\ exitPath = "empty"

LoadSpec == LoadInit /\ [][Next]_vars

\* ------------------------------------------------------------------------
\* Progress: a session started on a data directory of earlier sessions,
\* against a site that ends with an empty page or one that never does.
\* Every await of crawl() resolves (a navigation succeeds, fails or times
\* out, a sleep ends), and so does the browser.close() of the SIGINT
\* handler; signals and the start of the next session are not forced.
\* ------------------------------------------------------------------------
LiveInit ==
    /\ LoadInit
    /\ fileKind \in {"missing", "snapshot"}

Step ==
    \/ StartOk \/ StartFail
    \/ ReadListing \/ ReadListingFail
    \/ ConsiderItem \/ PageDone
    \/ GotoOk \/ GotoTimeout \/ GotoError
    \/ RecoverNavOk \/ RecoverNavReload \/ RecoverNavFail \/ RecoverWait
    \/ RelistOk \/ RelistFail \/ RegotoOk \/ RegotoFail
    \/ ExtractOk \/ ExtractFail \/ PostDelay
    \/ PageRest \/ GoBackOk \/ GoBackFail
    \/ AdvanceOk \/ AdvanceNoMore \/ AdvanceError \/ AdvanceTimeout
    \/ AdvRecoverNavOk \/ AdvRecoverNavReload \/ AdvRecoverWait
    \/ AdvRetryOk \/ AdvRetryTimeout
    \/ PageDelay
    \/ FinallySorted \/ FinallySortFails
    \/ HandlerExit

LiveSpec == LiveInit /\ [][Next]_vars /\ WF_vars(Step)

\* ------------------------------------------------------------------------
\* Properties
\* ------------------------------------------------------------------------
\* pcs at which the detail fetch of the row Cur has been issued and the
\* iteration of that row is not over
FetchPcs == {"goto", "recoverNav", "recoverWait", "relist", "regoto",
             "extract", "postDelay"}

NoDuplicateIds(lines) ==
    \A j, k \in 1..Len(lines) : j # k => lines[j].article_no # lines[k].article_no

IsSortedDesc(lines) ==
    \A j, k \in 1..Len(lines) : j < k => lines[j].article_no >= lines[k].article_no

UnderCeiling(ceiling) ==
    /\ \A id \in appended : id <= ceiling
    /\ pc \in FetchPcs => Cur.articleNo <= ceiling

\* C3 as stated: in both crawlers, once the first listing page is read no
\* item with an id above the maximum id of that page is fetched or appended.
C3_BothCrawlersCeiling == firstPageMax # 0 => UnderCeiling(firstPageMax)

\* C3 as amended: the community crawler keeps the maximum id of the first
\* listing page as its ceiling and never fetches or appends an item above it.
C3_CommunityCeiling ==
    (crawler = "community" /\ firstPageMax # 0) =>
        /\ maxArticleNo = firstPageMax
        /\ UnderCeiling(maxArticleNo)

\* the community crawler is at a row of a later page whose id is above the
\* ceiling
C3_Witness ==
    /\ crawler = "community"
    /\ pageNum > 1
    /\ pc = "item"
    /\ articles # <<>>
    /\ maxArticleNo # 0
    /\ Cur.articleNo > maxArticleNo

\* the for loop is at a row, about to apply the admission checks to it
AtRow == pc = "item" /\ articles # <<>>

\* ... and the row's parsed date is before the cutoff
AtRowBeforeCutoff == AtRow /\ isBeforeCutoff(crawler, Cur.datetimeRaw)

\* the step ends the for loop: no later row of the page is taken
StopsHere ==
    /\ shouldStop'
    /\ articles' = <<>>
    /\ pc' \in {"finally", "pageRest"}

\* the step goes on to the next row of the page
SkipsHere ==
    /\ ~shouldStop'
    /\ articles' = Tail(articles)
    /\ pc' = "item"

\* once shouldStop is set the session takes no row, issues no fetch, reads
\* no listing and advances no page
NothingAfterStop ==
    (shouldStop /\ run' = run) =>
        /\ pc' \notin {"item", "goto", "list", "goBack", "advance"}
        /\ pageNum' = pageNum
        /\ jsonl' = jsonl \/ pc = "finally"
        /\ visitedFile' = visitedFile

\* a record is appended only for a row that is not before the cutoff
NoOldRowAppended ==
    (appended' # appended /\ run' = run) =>
        ~isBeforeCutoff(crawler, Cur.datetimeRaw)

\* the row gets as far as the cutoff test of its crawler
ReachesCutoffTest ==
    IF crawler = "community"
    THEN ~(maxArticleNo # 0 /\ Cur.articleNo > maxArticleNo)
    ELSE ~VisitedHas(visited, Cur.articleNo)

\* C4 as stated: no row before the cutoff is appended, and whenever the loop
\* comes to such a row it stops there: no later row, no later page.
C4_AnyOldRowStops ==
    [][/\ NoOldRowAppended
       /\ AtRowBeforeCutoff => StopsHere
       /\ NothingAfterStop]_vars

\* C4 as amended: no row before the cutoff is appended; a row before the
\* cutoff that gets as far as the cutoff test (community: id not above the
\* ceiling; notice: id not yet visited) stops the loop, and nothing is
\* processed after it; a row before the cutoff that fails the earlier test
\* is skipped and the loop goes on.
C4_TestedOldRowStops ==
    [][/\ NoOldRowAppended
       /\ (AtRowBeforeCutoff /\ ReachesCutoffTest) => StopsHere
       /\ (AtRowBeforeCutoff /\ ~ReachesCutoffTest) => SkipsHere
       /\ NothingAfterStop]_vars

\* the loop was stopped by a row before the cutoff after some ingestion
C4_Witness ==
    shouldStop /\ exitPath = "cutoff" /\ pc = "finally" /\ appended # {}

\* C5 as stated: every row with id <= SessionCeiling (the maximum id of the
\* first listing page) and a date before the cutoff stops the session, an
\* already visited row included.
C5_CutoffBeforeVisited ==
    [][(AtRowBeforeCutoff /\ Cur.articleNo <= firstPageMax) => StopsHere]_vars

\* C5 as amended: the community crawler tests ceiling, cutoff, visited in
\* that order, so a visited row before the cutoff stops the session; the
\* notice crawler tests visited first and has no ceiling, so a visited row
\* before the cutoff is skipped and an unvisited one stops the session.
C5_OrderPerCrawler ==
    [][AtRow =>
         IF crawler = "community"
         THEN IF maxArticleNo # 0 /\ Cur.articleNo > maxArticleNo THEN SkipsHere
              ELSE IF isBeforeCutoff(crawler, Cur.datetimeRaw) THEN StopsHere
              ELSE VisitedHas(visited, Cur.articleNo) => SkipsHere
         ELSE IF VisitedHas(visited, Cur.articleNo) THEN SkipsHere
              ELSE isBeforeCutoff(crawler, Cur.datetimeRaw) => StopsHere]_vars

\* the community crawler is at a visited row, under the ceiling, before the
\* cutoff
C5_Witness ==
    /\ crawler = "community"
    /\ AtRowBeforeCutoff
    /\ Cur.articleNo <= maxArticleNo
    /\ VisitedHas(visited, Cur.articleNo)

\* a step at this pc other than the signal handler's
StepsFrom(at) == pc = at /\ pc' \notin {at, "exited"}

\* C6 as stated: after the recovery wait of a detail fetch the same fetch is
\* issued again (one wait, second attempt, same row), and when it and the
\* extraction succeed the row is ingested.
C6_RetriedAndIngested ==
    [][/\ StepsFrom("recoverWait") =>
             /\ pc' = "regoto"
             /\ recoveryWaits' = 1 /\ attempts' = 2
             /\ articles' = articles
       /\ (StepsFrom("extract") /\ detail' = "ok" /\ recoveryWaits = 1) =>
             /\ attempts = 2
             /\ Cur.articleNo \in appended' \cap visitedFile']_vars

\* C6 as amended: the notice crawler sleeps one recovery wait, issues the
\* goto of the same row a second time and ingests the row when that goto
\* and the extraction succeed; the community crawler sleeps one recovery
\* wait, reloads the listing and goes on with the next row: the goto is not
\* issued again and that iteration ingests nothing.
C6_RetryOnlyInNotice ==
    [][IF crawler = "notice"
       THEN /\ StepsFrom("recoverWait") =>
                  /\ pc' = "regoto"
                  /\ recoveryWaits' = 1 /\ attempts' = 2
                  /\ articles' = articles
            /\ (StepsFrom("regoto") /\ pc' = "extract") =>
                  /\ articles' = articles
                  /\ UNCHANGED op
            /\ (StepsFrom("extract") /\ detail' = "ok" /\ recoveryWaits = 1) =>
                  /\ attempts = 2
                  /\ Cur.articleNo \in appended' \cap visitedFile'
                  /\ \E k \in 1..Len(jsonl') : jsonl'[k].article_no = Cur.articleNo
       ELSE /\ StepsFrom("recoverWait") =>
                  /\ pc' = "relist"
                  /\ recoveryWaits' = 1 /\ attempts' = 1
                  /\ articles' = articles
            /\ pc # "regoto"
            /\ StepsFrom("relist") =>
                  /\ UNCHANGED <<store, appended, added>>
                  /\ Cur.articleNo \notin visitedFile
                  /\ pc' = "item" => articles' = Tail(articles)]_vars

\* the notice crawler has ingested a row on the second goto after one wait
C6_Witness ==
    /\ crawler = "notice"
    /\ pc = "postDelay"
    /\ attempts = 2 /\ recoveryWaits = 1
    /\ Cur.articleNo \in appended \cap visitedFile

\* the session is over: no row is fetched, no page advanced, no mark made
SessionOver ==
    /\ pc' \in {"finally", "done", "exited"}
    /\ pageNum' = pageNum
    /\ visitedFile' = visitedFile

\* this step is a detail fetch that fails after the recovery wait of the
\* detail fetch before it: the retried goto of the notice crawler, or the
\* goto of the next fetched row of the community crawler
FailsAgainAfterWait ==
    /\ lastFetchTimedOut
    /\ \/ StepsFrom("regoto") /\ pc' # "extract"
       \/ pc = "goto" /\ pc' = "recoverNav"

\* C7 as stated: when a detail fetch timed out and the fetch after the
\* recovery wait fails again, the session aborts and the failed row's id is
\* not in the visited store.
C7_SecondTimeoutAborts ==
    [][FailsAgainAfterWait =>
          /\ pc' = "finally" /\ exitPath' = "fatal-detail"
          /\ Cur.articleNo \notin visited' \cup visitedFile']_vars

\* C7 as amended: in the notice crawler the failure of the retried goto
\* aborts the session (the loop is left for the finally block, nothing is
\* fetched or advanced after it) and the row's id is not in the visited
\* store; the community crawler never aborts on a detail fetch: a timeout
\* after a recovery wait starts another recovery, and the id of the row
\* that timed out is not in the visited store.
C7_AbortOnlyInNotice ==
    [][/\ (crawler = "notice" /\ FailsAgainAfterWait) =>
             /\ pc' = "finally" /\ exitPath' = "fatal-detail"
             /\ UNCHANGED store
             /\ Cur.articleNo \notin visited' \cup visitedFile'
       /\ (exitPath = "fatal-detail" /\ run' = run) => SessionOver
       /\ (crawler = "community" /\ FailsAgainAfterWait) =>
             /\ pc' = "recoverNav" /\ exitPath' = "none"
             /\ UNCHANGED <<store, articles>>
             /\ Cur.articleNo \notin visited' \cup visitedFile'
       /\ crawler = "community" => exitPath' # "fatal-detail"]_vars

\* the notice crawler has aborted on the failure of a retried goto
C7_Witness ==
    /\ crawler = "notice"
    /\ exitPath = "fatal-detail"
    /\ pc = "finally"
    /\ lastFetchTimedOut

AdvancePcs == {"advance", "advRecoverNav", "advRecoverWait", "advRetry"}

\* the records and the visited marks made so far are kept
ProgressKept ==
    /\ visitedFile' = visitedFile
    /\ visited' = visited
    /\ \A k \in 1..Len(jsonl) :
         \E m \in 1..Len(jsonl') : jsonl'[m] = jsonl[k]
    /\ Len(jsonl') = Len(jsonl)

\* C8: a page advance that times out is followed by one recovery wait and
\* one second issue of the same advance (same pageNum); when the second one
\* succeeds the loop continues with the listing of that page, when it times
\* out too the loop is left and no further listing page is processed; the
\* records and visited marks made so far are kept throughout.
C8_AdvanceRecoveredOnce ==
    [][/\ (pc = "advance" /\ pc' = "advRecoverNav") =>
             attempts = 1 /\ recoveryWaits = 0
       /\ (StepsFrom("advRecoverWait") /\ pc' # "finally") =>
             /\ pc' = "advRetry"
             /\ recoveryWaits' = 1 /\ attempts' = 2
             /\ pageNum' = pageNum
       /\ StepsFrom("advRetry") =>
             /\ attempts = 2 /\ recoveryWaits = 1
             /\ \/ pc' = "pageDelay" /\ pageNum' = pageNum /\ exitPath' = "none"
                \/ pc' = "finally" /\ exitPath' \in {"fatal-advance", "error"}
       /\ (pc = "pageDelay" /\ recoveryWaits = 1 /\ pc' # "exited") =>
             /\ pageNum' = pageNum
             /\ pc' \in {"pageDelay", "list"}
       /\ (exitPath = "fatal-advance" /\ run' = run) =>
             SessionOver /\ ProgressKept
       /\ (pc \in AdvancePcs /\ run' = run) => ProgressKept]_vars

\* the session was aborted by the second timeout of a page advance, with
\* the records of the pages before it on file
C8_Witness ==
    /\ exitPath = "fatal-advance"
    /\ pc = "done"
    /\ appended # {}
    /\ appended \subseteq visitedFile \cap IdsOfLines(jsonl)

\* the detail fetch of the current row is under way and has not completed
FetchIncomplete == pc \in FetchPcs /\ detail # "ok"

\* C9: while the detail fetch or extraction of a row has not completed, and
\* on every step that ends it without completing (timeout, other
\* navigation error, failed extraction), the row's id is not in the visited
\* store and no record of it is in the JSONL file (other than the one a
\* killed notice process left behind; the kill after a completed
\* extraction is not such a step).
C9_NoMarkNoRecordOnFailure ==
    /\ [](FetchIncomplete =>
            /\ Cur.articleNo \notin visited \cup visitedFile \cup appended
            /\ Cur.articleNo \in IdsOfLines(jsonl) => Cur.articleNo \in orphaned)
    /\ [][(FetchIncomplete /\ detail' # "ok" /\ run' = run
                           /\ exitPath' # "killed") =>
            /\ UNCHANGED <<visited, jsonl, appended, added>>
            /\ Cur.articleNo \notin visitedFile']_vars

\* the community crawler got no detail from parseArticleDetail: the row is
\* neither marked nor recorded
C9_Witness ==
    /\ pc = "postDelay"
    /\ detail = "null"
    /\ Cur.articleNo \notin visited \cup visitedFile \cup IdsOfLines(jsonl)

\* the finally block has run to its end
FinalizeRan == pc = "done"

\* C10 as stated: whenever the process has ended, by the loop's exits or by
\* an external interruption, the finally block has run, and the JSONL file
\* it rewrote is sorted by id descending.
C10_FinalizeOnEveryPath ==
    ~Running => (FinalizeRan /\ (sorted => IsSortedDesc(jsonl)))

\* a session ended by SIGINT with its records left in append order
C10_InterruptedUnsorted ==
    /\ pc = "exited"
    /\ exitPath = "interrupt"
    /\ ~IsSortedDesc(jsonl)

\* the ids with a record in the JSONL file
Recorded == IdsOfLines(jsonl)

\* C11 as stated: wherever an external interrupt arrives, the files hold no
\* record without its visited-mark and no visited-mark without its record.
C11_InterruptNeverSplitsIngest == Recorded = visitedFile

\* C11 as amended: in the community crawler the SIGINT handler runs only
\* while crawl() is suspended in an await, never between append and add,
\* and changes neither file's content, so records and marks agree in every
\* state; the notice crawler installs no handler, the signal can end it
\* between append and add, and then the last record is left without its
\* mark (a mark without a record never exists).
C11_HandlerNeverSplitsIngest ==
    /\ [](/\ crawler = "community" => Recorded = visitedFile
          /\ visitedFile \subseteq Recorded
          /\ Recorded \ visitedFile \subseteq orphaned)
    /\ [][/\ (handler = "idle" /\ handler' = "closing") =>
                /\ pc \in AwaitPcs
                /\ crawler = "community"
                /\ UNCHANGED <<pc, jsonl, visited, visitedFile>>
          /\ orphaned' # orphaned =>
                /\ crawler = "notice"
                /\ pc' = "exited"
                /\ Cardinality(orphaned') = Cardinality(orphaned) + 1]_vars

\* the community crawler was interrupted after it had ingested something
C11_Witness ==
    /\ crawler = "community"
    /\ handler = "closing"
    /\ pc = "exited"
    /\ appended # {}
    /\ Recorded = visitedFile

\* C12: whatever sequence of records the file holds, the rewrite of the
\* finally block leaves the ids of its lines in non-increasing order.
C12_RewriteSortsDescending ==
    [][(pc = "finally" /\ sorted') => IsSortedDesc(jsonl')]_vars

\* a file of three lines with different ids has been rewritten
C12_Witness ==
    /\ pc = "done" /\ sorted
    /\ Len(jsonl) = MaxLines
    /\ Cardinality(IdsOfLines(jsonl)) >= 2
    /\ IsSortedDesc(jsonl)

PageRestStep == pc = "pageRest" /\ pc' \notin {"pageRest", "exited"}

\* the step from the page delay to the next listing
PageDelayStep == pc = "pageDelay" /\ pc' = "list"

\* C14 as stated: after a page on which nothing was ingested the next
\* listing is read without any delay having been slept, the per-page delay
\* included.
C14_IdlePageNoDelayAtAll ==
    [][(PageDelayStep /\ ~pageEnd.crawled) => pageEnd'.slept = {}]_vars

\* C14 as amended: after a page on which nothing was ingested neither page
\* rest (every 3rd, every 10th page) is slept, but the per-page delay is
\* slept before the next listing as after every page.
C14_IdlePageSkipsRestsOnly ==
    [][/\ (PageRestStep /\ crawledInThisPage = 0) =>
             ~pageEnd'.crawled /\ pageEnd'.slept = {}
       /\ PageDelayStep => "betweenPages" \in pageEnd'.slept
       /\ (PageDelayStep /\ ~pageEnd.crawled) =>
             pageEnd'.slept = {"betweenPages"}]_vars

\* the next listing is due after a page with a number that is a multiple
\* of 3 on which nothing was ingested: only the per-page delay was slept
C14_Witness ==
    /\ pc = "list"
    /\ pageEnd.page > 0 /\ pageEnd.page % ShortRestEvery = 0
    /\ ~pageEnd.crawled
    /\ pageEnd.slept = {"betweenPages"}

\* the page just completed is a multiple of both rest periods
OnBothTiers(page) == page % ShortRestEvery = 0 /\ page % LongRestEvery = 0

\* C15 as stated: after a page whose number is a multiple of both 3 and 10
\* with something ingested on it, both page rests are slept.
C15_BothTiersSlept ==
    [][(PageRestStep /\ crawledInThisPage > 0
          /\ OnBothTiers(CompletedPage(crawler, pageNum))) =>
         {"every3Pages", "every10Pages"} \subseteq pageEnd'.slept]_vars

\* C15 as amended: the page rests exclude each other, the every-10th-page
\* rest first: with something ingested on the page, a multiple of 10 gets
\* the every-10th-page rest only (also when it is a multiple of 3), any
\* other multiple of 3 the every-3rd-page rest, any other page none.
C15_TiersExclusive ==
    [][PageRestStep =>
         LET page == CompletedPage(crawler, pageNum)
             slept == pageEnd'.slept
         IN /\ Cardinality(slept) <= 1
            /\ "every10Pages" \in slept <=>
                  (crawledInThisPage > 0 /\ page % LongRestEvery = 0)
            /\ "every3Pages" \in slept <=>
                  (crawledInThisPage > 0 /\ page % ShortRestEvery = 0
                                         /\ page % LongRestEvery # 0)]_vars

\* a page that is a multiple of both periods, with something ingested, was
\* followed by the every-10th-page rest alone
C15_Witness ==
    /\ pageEnd.page > 0 /\ OnBothTiers(pageEnd.page)
    /\ pageEnd.crawled
    /\ pageEnd.slept = {"every10Pages"}

\* C16: a failed extraction leaves the session running: nothing is
\* recorded or marked for the row, the loop is not left, and the next row
\* of the same page is the one taken next.
C16_ExtractionFailureSkipsItem ==
    [][/\ (StepsFrom("extract") /\ detail' # "ok") =>
             /\ exitPath' = "none"
             /\ UNCHANGED <<visited, visitedFile, jsonl, pageNum, shouldStop>>
             /\ \/ pc' = "item" /\ articles' = Tail(articles)
                \/ pc' = "postDelay" /\ articles' = articles
       /\ (StepsFrom("postDelay") /\ detail = "null") =>
             /\ exitPath' = "none"
             /\ UNCHANGED <<visited, visitedFile, jsonl, pageNum, shouldStop>>
             /\ pc' = "item" /\ articles' = Tail(articles)]_vars

\* parseArticleDetail returned null for a row that is not the last of its
\* page, and the session is still in its loop
C16_Witness ==
    /\ crawler = "community"
    /\ pc = "postDelay" /\ detail = "null"
    /\ Len(articles) >= 2
    /\ exitPath = "none"

\* the date of the row cannot be read
Unparsable(raw) == raw.fmt # "ok"

\* C17 as stated: a row whose date cannot be parsed is skipped: no fetch,
\* no record, no stop at the cutoff, and the next row is taken.
C17_UnparsableSkipped == [][(AtRow /\ Unparsable(Cur.datetimeRaw)) => SkipsHere]_vars

\* the row gets as far as the date test of its crawler
ReachesDateTest ==
    IF crawler = "community"
    THEN ~(maxArticleNo # 0 /\ Cur.articleNo > maxArticleNo)
    ELSE ~VisitedHas(visited, Cur.articleNo)

\* the detail page of the row is fetched
FetchedHere == pc' = "goto" /\ articles' = articles /\ ~shouldStop'

\* C17 as amended: a row whose date cannot be parsed never stops the
\* session as a row before the cutoff.  Community: a row without a date is
\* skipped; a row whose date string makes the parser throw is fetched when
\* it is not visited, and no record is appended for it; a row whose date
\* string parses to an Invalid Date is fetched when it is not visited, and
\* ingested.  Notice: a row whose date text matches no format is fetched
\* and ingested; a row whose text makes the parser throw ends the session
\* through the outer catch.
C17_UnparsableNeverCutoff ==
    [][/\ (AtRow /\ Unparsable(Cur.datetimeRaw)) => exitPath' # "cutoff"
       /\ (AtRow /\ ReachesDateTest /\ crawler = "community") =>
             LET fmt == Cur.datetimeRaw.fmt
                 vis == VisitedHas(visited, Cur.articleNo)
             IN /\ fmt = "empty" => SkipsHere
                /\ (fmt \in {"malformed", "invalid"} /\ vis) => SkipsHere
                /\ (fmt \in {"malformed", "invalid"} /\ ~vis) => FetchedHere
       /\ (AtRow /\ ReachesDateTest /\ crawler = "notice") =>
             /\ parseNoticeNull(Cur.datetimeRaw) => FetchedHere
             /\ parseNoticeThrows(Cur.datetimeRaw) =>
                   pc' = "finally" /\ exitPath' = "error"
       /\ (StepsFrom("extract") /\ detail' = "ok") =>
             IF crawler = "community" /\ parseDateThrows(Cur.datetimeRaw)
             THEN UNCHANGED <<jsonl, visited, visitedFile>>
             ELSE Cur.articleNo \in IdsOfLines(jsonl') \cap visitedFile']_vars

\* the community crawler is fetching the detail page of a row whose date
\* string made the parser throw
C17_Witness ==
    /\ crawler = "community"
    /\ pc = "goto"
    /\ parseDateThrows(Cur.datetimeRaw)

\* a step that ends the session, or gives its end another cause
Terminates == exitPath' # exitPath /\ exitPath' # "none"

\* C18 as stated: a session ends by the cutoff, by an empty listing page, by
\* the second timeout of a recovered operation, or by an interruption, and
\* in no other way.
C18_FourTerminations ==
    exitPath \in {"none", "cutoff", "empty", "fatal-detail", "fatal-advance",
                  "interrupt", "killed"}

\* C18 as amended: besides the cutoff, the empty listing page, the second
\* timeout (of a detail fetch in the notice crawler only, of a page advance
\* in both) and the interruption, a session ends when there is no next page
\* to advance to, and when an error reaches the outer catch: a failed first
\* load, listing read, return to the listing or page advance, and in the
\* notice crawler a date text that makes the parser throw.  The loop is
\* left with one of these causes and in no other way, and only an
\* interruption ends the process without the finally block.
C18_SixTerminations ==
    /\ [](exitPath # "none" <=> pc \in {"finally", "done", "exited"})
    /\ [][Terminates =>
            /\ exitPath' \in {"cutoff", "empty", "nomore", "fatal-detail",
                              "fatal-advance", "error", "interrupt", "killed"}
            /\ exitPath' \in {"interrupt", "killed"} <=> pc' = "exited"
            /\ exitPath' \notin {"interrupt", "killed"} =>
                  exitPath = "none" /\ pc' = "finally"
            /\ exitPath' = "cutoff" => shouldStop'
            /\ exitPath' = "empty" => pc = "list"
            /\ exitPath' = "nomore" => pc = "advance"
            /\ exitPath' = "fatal-detail" =>
                  crawler = "notice" /\ pc = "regoto"
            /\ exitPath' = "fatal-advance" => pc = "advRetry"
            /\ exitPath' = "error" =>
                  \/ pc \in {"start", "list", "goBack"} \cup AdvancePcs
                  \/ /\ crawler = "notice"
                     /\ AtRow
                     /\ parseNoticeThrows(Cur.datetimeRaw)
            /\ exitPath' = "interrupt" => pc \in AwaitPcs
            /\ exitPath' = "killed" => crawler = "notice"]_vars

\* the session has ended because there was no next page to advance to
C18_Witness == pc = "done" /\ exitPath = "nomore"

\* the constructor of VisitedManager runs load
Loads == run' = run + 1

\* the step contains a call of VisitedManager.add for the row at hand
Adds == added' # added

\* what a load of data/visited.json yields: the persisted visited set
Persisted == VisitedLoad(fileKind, visitedFile)

\* C19: when VisitedManager.add(id) returns, the file holds a snapshot of
\* exactly the in-memory set, id included; so whenever the session is
\* suspended, what the file would load to equals the in-memory set.
C19_PersistedEqualsMemory ==
    /\ [](Running => visited = Persisted)
    /\ [][Adds => /\ Cur.articleNo \in visited'
                  /\ visited' = visited \cup {Cur.articleNo}
                  /\ fileKind' = "snapshot"
                  /\ visitedFile' = visited']_vars

\* a session started on a file with entries has added an id of its own
C19_Witness ==
    /\ Running
    /\ added # {}
    /\ visited \ added # {}
    /\ pc \in AwaitPcs

\* C20 as stated: loading a missing file, or a file that is no valid
\* snapshot, yields the empty set, and the session goes on.
C20_BadFileLoadsEmpty ==
    [][(Loads /\ fileKind # "snapshot") => visited' = {} /\ pc' = "start"]_vars

\* a session runs on a set loaded from a visited array with foreign entries
C20_ForeignEntriesLoaded == Running /\ run = MaxRuns /\ NotAnId \in visited

\* the page just read lists a row whose date is before the cutoff
OldRowListed ==
    /\ pc = "item"
    /\ \E k \in 1..Len(articles) : isBeforeCutoff(crawler, articles[k].datetimeRaw)

\* the process was ended by a signal
Interrupted == exitPath \in {"interrupt", "killed"}

\* C21 as stated: when the site has an empty page, or a page with a row
\* before the cutoff, every session comes to its end (through the finally
\* block, or by a signal).
C21_FiniteListingEnds ==
    [](((Running /\ siteEnds) \/ OldRowListed) => <>(~Running))

\* C21 as amended: every session ends when the site has an empty page,
\* and every session ends once a row before the cutoff has reached the
\* cutoff test (shouldStop is set); a session that has ended has run the
\* finally block unless a signal ended the process.
C21_EndsOnEmptyPageOrStop ==
    /\ []((Running /\ siteEnds) => <>(~Running))
    /\ []((Running /\ shouldStop) => <>(~Running))
    /\ [](~Running => (pc = "done" \/ Interrupted))

\* a session on a site without an empty page has ended at the cutoff,
\* through the finally block
C21_Witness ==
    /\ ~siteEnds
    /\ run = MaxRuns
    /\ pc = "done"
    /\ exitPath = "cutoff"

\* the milliseconds the header comment gives for a sleep of the rate
\* limiting: between posts 0.5~2 s, between pages 1~3 s, every 10 pages
\* 10~15 s, every 30 pages 1 min ~ 1 min 20 s (after a page with the given
\* number, for the page rests); none for a sleep the header does not
\* mention
HeaderDelay(kind, page) ==
    CASE kind = "betweenPosts" -> 500..2000
      [] kind = "betweenPages" -> 1000..3000
      [] kind \in {"every3Pages", "every10Pages"} ->
              IF page % HeaderLongRestEvery = 0 THEN 60000..80000
              ELSE IF page % HeaderRestEvery = 0 THEN 10000..15000
              ELSE {}
      [] OTHER -> {}

\* C22 as stated: every sleep of the rate limiting is one the header
\* documents and lasts as long as the header says: 0.5 to 2 s between
\* posts, 1 to 3 s between pages, 10 to 15 s every 10 pages, 60 to 80 s
\* every 30 pages.
C22_RateLimitsAsHeader ==
    crawler = "community" =>
        \A n \in naps :
            n.kind \notin {"recoveryWait", "relistWait"} =>
                n.ms \in HeaderDelay(n.kind, pageEnd.page)

\* a between-posts delay longer than the header's 2 seconds was slept
C22_LongerThanHeader ==
    /\ crawler = "community"
    /\ \E n \in naps : n.kind = "betweenPosts"
                        /\ n.ms \notin HeaderDelay("betweenPosts", pageEnd.page)

\* C23: a row whose id is in the visited set when the row is considered is
\* not fetched, and no step appends a record whose id is in the visited set
\* or was appended earlier in the session: no id is appended twice in one
\* session, also when the id is listed twice on a page or on two pages.
C23_VisitedNeverRefetched ==
    [][/\ (pc = "item" /\ FetchedHere) => Cur.articleNo \notin visited
       /\ Len(jsonl') > Len(jsonl) =>
              jsonl'[Len(jsonl')].article_no \notin (visited \cup appended)]_vars

\* a row is considered whose id was ingested earlier in this session
C23_Witness ==
    /\ pc = "item" /\ articles # <<>>
    /\ Cur.articleNo \in (appended \cap visited)

\* C24 as stated: when a detail-page fetch is requested for a row and a
\* fetch was requested before in the session, a sleep (a backoff delay, the
\* settle sleep or a recovery wait) has ended since that earlier request,
\* whatever became of it.
C24_DelayBetweenFetches ==
    [][(pc = "item" /\ FetchedHere) => fetchGap \in {"nofetch", "paced"}]_vars

\* notice: a row is about to be fetched and nothing was slept since the
\* fetch request before it
C24_FetchWithoutDelay ==
    /\ crawler = "notice"
    /\ pc = "item" /\ articles # <<>>
    /\ fetchGap = "unpaced"
    /\ AdmissionNotice(Cur, visited) = "fetch"

\* C25 as stated: the every-10th-item rest is slept by the step that
\* follows an item exactly when that item was ingested and brought the
\* count of ingested items to a positive multiple of 10; after an item that
\* was not ingested it is not slept, whatever the count.
C25_RestOncePerTenth ==
    [][pc = "postDelay" =>
          ((\E n \in naps' : n.kind = "every10Posts") <=>
              /\ detail = "ok" /\ Cur.articleNo \in added
              /\ totalCrawled > 0
              /\ totalCrawled % PostRestEvery = 0)]_vars

\* community: the delay after a row that was fetched and not ingested is
\* about to be slept while the count stands at a positive multiple of 10
C25_RestDueAgain ==
    /\ crawler = "community"
    /\ pc = "postDelay"
    /\ Cur.articleNo \notin added
    /\ totalCrawled > 0 /\ totalCrawled % PostRestEvery = 0

\* the instant a community row was posted: its KST wall-clock time read in
\* the zone it was written in
PostedAt(raw) == raw.wall - KstOffsetHours

\* C26 as stated: the community crawler classifies a row as before the
\* cutoff exactly when the instant the row was posted is strictly earlier
\* than the session start minus MONTHS_TO_CRAWL months; a row posted at or
\* after that instant does not stop the loop.
C26_OneTimeReference ==
    [][(AtRow /\ crawler = "community" /\ Cur.datetimeRaw.fmt = "ok"
          /\ ReachesDateTest)
       => (StopsHere <=> PostedAt(Cur.datetimeRaw) < CutoffInstant)]_vars

\* community: the row taken next was posted after the session start minus
\* MONTHS_TO_CRAWL months, and the date test finds it before the cutoff
C26_StopsInsideWindow ==
    /\ AtRow /\ crawler = "community"
    /\ ReachesDateTest
    /\ Cur.datetimeRaw.fmt = "ok"
    /\ PostedAt(Cur.datetimeRaw) >= CutoffInstant
    /\ AdmissionCommunity(Cur, maxArticleNo, visited) = "cutoff"

\* a step of the session at hand: no new process is started
SameSession == run' = run

\* C27: within a session the cutoff never changes; the ceiling, once set,
\* never changes; it is set by the read of the first listing page, to the
\* maximum id on that page, and stands at that value from then on.
C27_CeilingAndCutoffFixed ==
    [][SameSession =>
          /\ cutoffDate' = cutoffDate
          /\ maxArticleNo # NotAnId => maxArticleNo' = maxArticleNo
          /\ maxArticleNo' # maxArticleNo =>
                 /\ pc = "list" /\ pageNum = 1 /\ firstPageMax = NotAnId
                 /\ maxArticleNo' = MaxArticleNoOf(articles')
          /\ (crawler = "community" /\ firstPageMax' # NotAnId) =>
                 maxArticleNo' = firstPageMax']_vars

\* community: a later page lists an id above the ceiling set on page 1
C27_Witness ==
    /\ crawler = "community"
    /\ pageNum > 1 /\ pc = "item"
    /\ maxArticleNo # NotAnId
    /\ MaxArticleNoOf(articles) > maxArticleNo

\* the page number a listing read must find: 1 for the first read of the
\* session, then one more than the page completed last
PageDue == IF pageEnd = NoPageEnd THEN 1 ELSE pageEnd.page + 1

\* C28: within a session the rows of a page are taken from the front, in
\* listing order (a stop drops the rest); pageNum never decreases and never
\* grows by more than 1 in a step, and only once the rows of the page are
\* used up; every listing read finds pageNum one above the page completed
\* before it, also after a recovery: no page is read twice, none is skipped.
C28_PagesInOrder ==
    [][SameSession =>
          /\ pageNum' \in {pageNum, pageNum + 1}
          /\ pageNum' # pageNum => articles = <<>>
          /\ pc = "list" => pageNum = PageDue
          /\ pc # "list" =>
                 \/ articles' = articles
                 \/ articles' = <<>>
                 \/ articles # <<>> /\ articles' = Tail(articles)]_vars

\* the second page is about to be read after the advance to it timed out
\* once and was issued again
C28_Witness ==
    /\ pc = "pageDelay" /\ pageNum = 2
    /\ recoveryWaits > 0 /\ attempts > 1
    /\ pageEnd.page = 1

\* a step of crawl() itself: no signal is delivered or being handled
CrawlStep == handler = "idle" /\ handler' = "idle" /\ pc' \notin {pc, "exited"}

C30_ShortDateYear ==
    [][(parsed.text.kind = "short" /\ parsed'.date # parsed.date) =>
          /\ parsed'.date.year =
                 IF parsed.text.month <= parsed.kst.month
                 THEN parsed.kst.year ELSE parsed.kst.year - 1
          /\ parsed'.date.month = parsed.text.month
          /\ parsed'.date.day = parsed.text.day]_vars

\* a short text whose month is later than the current month was parsed
C30_Witness ==
    /\ parsed.text.kind = "short"
    /\ parsed.date # NoDate
    /\ parsed.text.month > parsed.kst.month
    /\ parsed.date.year = parsed.kst.year - 1

\* C31 as stated: while the SIGINT handler awaits browser.close(), crawl()
\* is not suspended in a navigation, a fetch or a page.evaluate of its own:
\* it has none still running and issues none.
C31_NoNavigationWhileClosing ==
    handler = "closing" =>
        pc \notin {"start", "list", "goto", "recoverNav", "relist", "regoto",
                   "extract", "goBack", "advance", "advRecoverNav",
                   "advRetry"}

\* the handler closes the browser while the page.goto of a detail page that
\* crawl() issued is pending
C31_GotoPendingWhileClosing ==
    /\ crawler = "community"
    /\ handler = "closing"
    /\ pc = "goto" /\ attempts = 1

\* C32 as stated: from the start of the SIGINT handler to the exit of the
\* process no record is appended and no id is added to the visited set.
C32_NoIngestWhileClosing ==
    [][handler = "closing" =>
          /\ jsonl' = jsonl
          /\ visited' = visited
          /\ appended' = appended /\ added' = added]_vars

\* the handler closes the browser while the extraction of a row that will
\* be ingested is pending
C32_ExtractPendingWhileClosing ==
    /\ crawler = "community"
    /\ handler = "closing"
    /\ pc = "extract"
    /\ ~parseDateThrows(Cur.datetimeRaw)
    /\ Cur.articleNo \notin visited

C34_StraightToFinalize ==
    [][(shouldStop /\ SameSession)
          => /\ pc' \in {"finally", "done", "exited"}
             /\ naps' = naps]_vars

\* the notice crawler has slept a rest of the page tiers with shouldStop set
\* and is entering the finally block
C34_RestedAfterCutoff ==
    /\ crawler = "notice"
    /\ shouldStop
    /\ pc = "finally" /\ exitPath = "cutoff"
    /\ \E n \in naps : n.kind \in {"every3Pages", "every10Pages"}

\* ------------------------------------------------------------------------
\* C35, C36: what the rewrite of the finally block keeps
\* ------------------------------------------------------------------------
\* C35: a rewrite that succeeds keeps every record as many times as the
\* file held it: the file has as many lines as before and each record on as
\* many of them, repeated ids included.
C35_RewriteKeepsEveryLine ==
    [][(pc = "finally" /\ sorted') =>
          /\ Len(jsonl') = Len(jsonl)
          /\ \A r \in Range(jsonl) \cup Range(jsonl') :
                Cardinality({k \in 1..Len(jsonl') : jsonl'[k] = r})
                   = Cardinality({k \in 1..Len(jsonl) : jsonl[k] = r})]_vars

\* a file of three lines has been rewritten, two of them with one id:
\* twice the same record, or two different records of the id
C35_RepeatedIdRewritten ==
    /\ pc = "done" /\ sorted
    /\ Len(jsonl) = MaxLines
    /\ Cardinality(IdsOfLines(jsonl)) = 2

\* C36: the rewrite of a file that a rewrite has produced leaves the
\* sequence of its lines as it is, also when lines share an id.
C36_RewriteIdempotent ==
    (pc = "done" /\ sorted) => SortDesc(jsonl) = jsonl

\* a rewritten file holds two different records of one id, one after the
\* other
C36_TwoRecordsOfOneId ==
    /\ pc = "done" /\ sorted
    /\ \E k \in 1..(Len(jsonl) - 1) :
          /\ jsonl[k].article_no = jsonl[k + 1].article_no
          /\ jsonl[k] # jsonl[k + 1]

\* ------------------------------------------------------------------------
\* C37: the range of randomDelay
\* ------------------------------------------------------------------------
\* C37: for integers min <= max the value randomDelay(min, max) returns is
\* no smaller than min and no larger than max; so for the ranges of
\* CONFIG.DELAY, each sleep inside the range of its tier.
C37_DelayWithinRange ==
    drawn.done => (drawn.min <= drawn.d /\ drawn.d <= drawn.max)

\* the call with the between-posts range has returned the upper end of the
\* range
C37_UpperEndDrawn ==
    /\ drawn.done
    /\ drawn.min = BETWEEN_POSTS_MIN /\ drawn.max = BETWEEN_POSTS_MAX
    /\ drawn.d = BETWEEN_POSTS_MAX

====
